---- MODULE Spec2Model ----
(***************************************************************************)
(* telnet-console: the console interceptor (ring buffer, wrapped logging   *)
(* entry points, event emission) and the telnet sessions that subscribe to *)
(* it (registry, cleanup, login loop, log mirroring, the `log` command).   *)
(*                                                                         *)
(* Sources: src/lib/nrc-repl.js lines 595-814 (intercept-console.js) and   *)
(* src/lib/tc-repl.js, src/lib/readln.js.                                  *)
(*                                                                         *)
(* One action is one macrotask of the single-threaded event loop: a        *)
(* console call, a transport event, a line of input, a timer.  The         *)
(* continuations that run in the microtasks it schedules are part of it.   *)
(***************************************************************************)
EXTENDS Integers, Sequences, FiniteSets, TLC

VARIABLES
  buffer,    \* that.buffer: the RingBuffer [size, buf, next]
  pushed,    \* history: every element pushed since construction or clear()
  minimal,   \* options.minimal of the ConsoleInterceptor
  lsn,       \* the interceptor's EventEmitter: event name -> listeners, in order
  registry,  \* tc-repl.js registry: the array of connected clients
  sess,      \* per client: the fields handleNewClient keeps on it
  options,   \* tc-repl.js options: users (configured or not), logOff
  ci,        \* the console namespace and the interceptors constructed on it
  last       \* history: what the last operation did

vars == <<buffer, pushed, minimal, lsn, registry, sess, options, ci, last>>

----------------------------------------------------------------------------
(* Bounds of the model *)

MaxKeep == 3      \* ring buffer capacities 1..MaxKeep
MaxPush == 7      \* pushes followed in the ring-buffer specification
MaxTries == 5     \* login attempts followed per session
MaxDepth == 6     \* nested calls after which the engine reports a stack overflow
MaxLine == 2      \* characters of the in-progress line
MaxChars == 3     \* characters of one rendered argument
MaxTyped == 3     \* printable characters typed at a readln prompt
Keep == 2         \* options.bufferLines of the server the sessions connect to
KeepCI == 1       \* options.keep of the interceptor specified on its own

----------------------------------------------------------------------------
(* JavaScript helpers, as the code uses them *)

(* a local assigned once: v is evaluated once and F applied to its value *)
With(v, F(_)) == CHOOSE y \in {F(x) : x \in {v}} : TRUE

Min(a, b) == IF a < b THEN a ELSE b
Max(a, b) == IF a > b THEN a ELSE b

(* Array.prototype.slice(start, end), indices 0-based, negative ones from the end *)
JsSlice(arr, start, end) ==
  LET len == Len(arr)
      k   == IF start < 0 THEN Max(len + start, 0) ELSE Min(start, len)
      fin == IF end < 0 THEN Max(len + end, 0) ELSE Min(end, len)
  IN  SubSeq(arr, k + 1, fin)

(* arr[i] = el on an array without holes: i = length appends *)
JsSet(arr, i, el) ==
  IF i < Len(arr) THEN [arr EXCEPT ![i + 1] = el]
  ELSE IF i = Len(arr) THEN Append(arr, el)
  ELSE arr

(* Array.prototype.indexOf, 0-based, -1 when absent *)
RECURSIVE IndexFrom(_, _, _)
IndexFrom(arr, el, i) ==
  IF i > Len(arr) THEN -1
  ELSE IF arr[i] = el THEN i - 1
  ELSE IndexFrom(arr, el, i + 1)

JsIndexOf(arr, el) == IndexFrom(arr, el, 1)

(* Array.prototype.splice(idx, 1): a negative idx counts from the end *)
JsSplice1(arr, idx) ==
  LET len == Len(arr)
      k   == IF idx < 0 THEN Max(len + idx, 0) ELSE Min(idx, len)
  IN  SubSeq(arr, 1, k) \o SubSeq(arr, k + 2, len)

----------------------------------------------------------------------------
(* RingBuffer *)

(* a clear that empties the storage and leaves the write position *)
RingBuffer_clearKeepNext(rb) == [rb EXCEPT !.buf = <<>>]

RingBuffer_clear(rb) == [rb EXCEPT !.buf = <<>>, !.next = 0]

RingBuffer(size) == RingBuffer_clear([size |-> size, buf |-> <<>>, next |-> 0])

RingBuffer_push(rb, el) ==
  [rb EXCEPT !.buf = JsSet(rb.buf, rb.next, el),
             !.next = (rb.next + 1) % rb.size]

(* a read of the storage as it lies, without the rotation *)
RingBuffer_unrotated(rb) == rb.buf

(* RingBuffer$$autoMethod: the array every forEach/map/filter/find/slice is applied to *)
RingBuffer_ordered(rb) ==
  LET top    == JsSlice(rb.buf, rb.next, Len(rb.buf))
      bottom == JsSlice(rb.buf, 0, rb.next)
  IN  top \o bottom

(* buffer.slice(start) *)
RingBuffer_slice(rb, start) ==
  With(RingBuffer_ordered(rb), LAMBDA tmp : JsSlice(tmp, start, Len(tmp)))

----------------------------------------------------------------------------
(* The ring buffer on its own: pushes and clears of plain items *)

Items == {"a", "b", "c"}

NoLast == [op |-> "none", wrapped |-> FALSE]

InitRing ==
  /\ \E size \in 1..MaxKeep : buffer = RingBuffer(size)
  /\ pushed = <<>>
  /\ minimal = FALSE
  /\ lsn = <<>>
  /\ registry = <<>>
  /\ sess = <<>>
  /\ options = <<>>
  /\ ci = <<>>
  /\ last = NoLast

RBPush ==
  /\ Len(pushed) < MaxPush
  /\ \E el \in Items :
       /\ buffer' = RingBuffer_push(buffer, el)
       /\ pushed' = Append(pushed, el)
  /\ UNCHANGED <<minimal, lsn, registry, sess, options, ci, last>>

RBClear ==
  /\ buffer' = RingBuffer_clear(buffer)
  /\ pushed' = <<>>
  /\ last' = [op |-> "clear", wrapped |-> Len(pushed) > buffer.size]
  /\ UNCHANGED <<minimal, lsn, registry, sess, options, ci>>

NextRing == RBPush \/ RBClear

SpecRing == InitRing /\ [][NextRing]_vars

(* the last n elements of a sequence, oldest first *)
LastN(seq, n) == SubSeq(seq, Len(seq) - Min(n, Len(seq)) + 1, Len(seq))

\* C1: with capacity C and no clear in between, the ordered read yields all n
\* pushed items in insertion order while n <= C, and exactly the last C pushed
\* items, oldest first, once more than C items were pushed.
C1_OrderedRead ==
  /\ Len(pushed) <= buffer.size => RingBuffer_ordered(buffer) = pushed
  /\ Len(pushed) > buffer.size =>
       RingBuffer_ordered(buffer) = LastN(pushed, buffer.size)

C1_Witness ==
  /\ buffer.size = 2
  /\ Len(pushed) = 5
  /\ pushed[4] # pushed[5]
  /\ RingBuffer_ordered(buffer) = <<pushed[4], pushed[5]>>

----------------------------------------------------------------------------
(* Values logged, and their rendering *)

Levels == {"debug", "log", "info", "warn", "error"}   \* options.levels
EventNames == Levels \cup {"trace", "any"}

Sessions == {"s1", "s2"}     \* telnet clients
Subs == {"g1", "g2"}         \* other subscribers of the interceptor
Listeners == Sessions \cup Subs

Str(s) == [t |-> "string", v |-> s]
Obj(s) == [t |-> "object", v |-> s]
Err(s) == [t |-> "error", v |-> s]
BadObj == Obj("bad")         \* an object whose inspection throws
Num(s) == [t |-> "number", v |-> s]
Undef == [t |-> "undefined", v |-> ""]

(* inspector(el, options): strings unquoted, everything else inspected *)
inspector(el) ==
  IF el.t = "string" THEN [ok |-> TRUE, text |-> el.v]
  ELSE IF el = BadObj THEN [ok |-> FALSE, text |-> ""]
  ELSE [ok |-> TRUE, text |-> "{ " \o el.v \o " }"]

inspectAll(args) == [i \in 1..Len(args) |-> inspector(args[i]).text]
inspectThrows(args) == \E i \in 1..Len(args) : ~inspector(args[i]).ok

----------------------------------------------------------------------------
(* tc-repl.js: the per-client fields, cleanup and the log write path *)

NoSession ==
  [pc |-> "none",        \* where handleNewClient is suspended
   logOff |-> FALSE,     \* client.logOff (undefined is falsy)
   tries |-> 0, login |-> "", password |-> "",
   delay |-> 0, prevDelay |-> 0,      \* the last two backoff delays awaited
   identity |-> "-",     \* client.login
   repl |-> FALSE,       \* client.repl exists
   paused |-> FALSE,     \* client.repl is paused
   errOn |-> FALSE,      \* the 'error' listener of line 195 is attached
   cleaned |-> FALSE,    \* client.cleanup has been replaced by the no-op
   destroyed |-> FALSE,  \* client.destroy() was called
   ended |-> FALSE,      \* client.end() was called
   rejected |-> FALSE,   \* handleNewClient ended by rethrowing
   removals |-> 0, unsubs |-> 0,      \* history: splices and listener removals
   keep |-> [x |-> Undef],            \* evalWrapperFactory: var keep = {}
   lastResult |-> Undef,              \* evalWrapperFactory: var last
   line |-> <<>>, cursor |-> 0,       \* client.repl.line, client.repl.cursor
   columns |-> 0]                     \* client.columns; 0 while it is undefined

(* EventEmitter.off(name, listener): removes the latest instance, if any *)
RECURSIVE LastIndex(_, _, _)
LastIndex(arr, el, i) ==
  IF i < 1 THEN 0 ELSE IF arr[i] = el THEN i ELSE LastIndex(arr, el, i - 1)

EE_off(ls, l) ==
  LET i == LastIndex(ls, l, Len(ls))
  IN  IF i = 0 THEN ls ELSE SubSeq(ls, 1, i - 1) \o SubSeq(ls, i + 1, Len(ls))

(* a cleanup that splices whatever indexOf returned, every time it is called *)
cleanup_spliceAlways(st, s) ==
  LET any == st.lsn["any"]
      had == LastIndex(any, s, Len(any)) # 0
      idx == JsIndexOf(st.registry, s)
  IN  [st EXCEPT
         !.lsn["any"] = EE_off(any, s),
         !.registry = JsSplice1(st.registry, idx),
         !.sess[s].unsubs = @ + (IF had THEN 1 ELSE 0),
         !.sess[s].destroyed = TRUE,
         !.sess[s].removals = @ + (IF st.registry # <<>> THEN 1 ELSE 0),
         !.sess[s].cleaned = TRUE]

(* a cleanup that leaves the log handler subscribed *)
cleanup_keepListener(st, s) ==
  IF st.sess[s].cleaned THEN st
  ELSE
    LET idx == JsIndexOf(st.registry, s)
    IN  [st EXCEPT
           !.registry = IF idx # -1 THEN JsSplice1(st.registry, idx) ELSE @,
           !.sess[s].destroyed = TRUE,
           !.sess[s].removals = @ + (IF idx # -1 THEN 1 ELSE 0),
           !.sess[s].cleaned = TRUE]

(* a cleanup that leaves the client in the registry *)
cleanup_keepRegistry(st, s) ==
  IF st.sess[s].cleaned THEN st
  ELSE [st EXCEPT !.lsn["any"] = EE_off(st.lsn["any"], s),
                  !.sess[s].unsubs = @ + 1,
                  !.sess[s].destroyed = TRUE,
                  !.sess[s].cleaned = TRUE]

(* client.cleanup (tc-repl.js 173-189) *)
cleanup(st, s) ==
  IF st.sess[s].cleaned THEN st
  ELSE
    LET any == st.lsn["any"]
        had == LastIndex(any, s, Len(any)) # 0
        idx == JsIndexOf(st.registry, s)
    IN  [st EXCEPT
           !.lsn["any"] = EE_off(any, s),
           !.registry = IF idx # -1 THEN JsSplice1(st.registry, idx) ELSE @,
           !.sess[s].unsubs = @ + (IF had THEN 1 ELSE 0),
           !.sess[s].destroyed = TRUE,
           !.sess[s].removals = @ + (IF idx # -1 THEN 1 ELSE 0),
           !.sess[s].cleaned = TRUE]

(* Outcome of the transport's writes during one handler:                  *)
(*   "ok"   they succeed;                                                 *)
(*   "wae"  they throw an error with code ERR_STREAM_WRITE_AFTER_END;     *)
(*   "epipe" they throw an error with code EPIPE;                         *)
(*   "err"  they throw an error with any other code.                      *)
WriteOutcomes == {"ok", "wae", "epipe", "err"}

(* writeLogEntry(client, entry); count is writeLogEntry.count on entry *)
writeLogEntry(st, s, entry, w, count) ==
  IF w = "wae"
    THEN [st |-> cleanup([st EXCEPT !.failed[s] = w], s), raised |-> FALSE]
  ELSE IF w \in {"epipe", "err"}
    THEN [st |-> [st EXCEPT !.failed[s] = w], raised |-> (count + 1 = 1)]
  ELSE IF ~entry.hasInspected
    THEN [st |-> st, raised |-> (count + 1 = 1)]
  ELSE [st |-> [st EXCEPT !.wrote[s] = Append(@, entry.inspectedArguments)],
        raised |-> FALSE]

(* beforeWriteHandler, with the line editor's cursor on row 0 *)
beforeWriteHandler(st, s) ==
  IF ~st.sess[s].repl THEN st ELSE [st EXCEPT !.sess[s].paused = TRUE]

(* options.prompt.length, '> ' *)
PromptLen == 2

(* client.repl.getCursorPos(): the display position of prompt + line up to the *)
(* cursor; the editor wraps at client.columns, at Infinity while it is unset   *)
getCursorPos(c) ==
  IF c.columns = 0 THEN [rows |-> 0, cols |-> PromptLen + c.cursor]
  ELSE [rows |-> (PromptLen + c.cursor) \div c.columns,
        cols |-> (PromptLen + c.cursor) % c.columns]

(* cursor || client.repl.line: cursor is NaN, falsy, while client.columns is unset *)
Redraws(c, pos) ==
  (c.columns # 0 /\ pos.rows * c.columns + pos.cols # 0) \/ c.line # <<>>

(* the number of ctrl-b keys: i < lineLen - cursor never holds for NaN *)
CtrlBs(c, pos) ==
  IF c.columns = 0 THEN 0
  ELSE Max(0, PromptLen + Len(c.line) - (pos.rows * c.columns + pos.cols))

(* afterWriteHandler: prompt() resumes and puts the cursor at 0, ctrl-e moves it *)
(* to the end of the line, each ctrl-b one back                                  *)
afterWriteHandler(st, s) ==
  IF ~st.sess[s].repl THEN st
  ELSE With(getCursorPos(st.sess[s]),
            LAMBDA pos :
              IF Redraws(st.sess[s], pos)
                THEN [st EXCEPT !.sess[s].paused = FALSE,
                                !.sess[s].cursor =
                                  Max(0, Len(st.sess[s].line) - CtrlBs(st.sess[s], pos)),
                                !.redraw[s] = "prompt"]
              ELSE [st EXCEPT !.sess[s].paused = FALSE, !.redraw[s] = "resume"])

(* handleConsoleEvents(ev) of client s (tc-repl.js 161-168) *)
handleConsoleEvents(st, s, ev, w) ==
  IF st.sess[s].logOff THEN [st |-> st, raised |-> FALSE]
  ELSE
    With(writeLogEntry(beforeWriteHandler([st EXCEPT !.triad[s] = "begun"], s),
                       s, ev, w, 0),
         LAMBDA r :
           IF r.raised THEN r
           ELSE [st |-> [afterWriteHandler(r.st, s) EXCEPT !.triad[s] = "done"],
                 raised |-> FALSE])

----------------------------------------------------------------------------
(* ConsoleInterceptor: event emission *)

(* The state a console call threads through its listeners *)
MkSt ==
  [lsn |-> lsn, registry |-> registry, sess |-> sess,
   notified |-> <<>>,                           \* listener invocations, in order
   wrote |-> [s \in Sessions |-> <<>>],         \* log entries written per client
   triad |-> [s \in Sessions |-> "none"],       \* redraw triads: none, begun, done
   failed |-> [s \in Sessions |-> "none"],      \* the write failure a client ran into
   redraw |-> [s \in Sessions |-> "none"]]      \* after: none, prompt, resume

(* One listener invoked with (ev) or, on 'any', with (ev, eventName).  A session's *)
(* listener is its handleConsoleEvents; o says what this invocation runs into.    *)
InvokeListener(st, l, name, ev, tag, o) ==
  LET st1 == [st EXCEPT !.notified =
                Append(@, [l |-> l, name |-> name, level |-> ev.level, tag |-> tag])]
  IN  IF l \in Sessions THEN handleConsoleEvents(st1, l, ev, o)
      ELSE [st |-> st1, raised |-> (o = "throw")]

RECURSIVE CallListeners(_, _, _, _, _, _, _)
CallListeners(st, ls, i, name, ev, tag, oc) ==
  IF i > Len(ls) THEN [st |-> st, raised |-> "none"]
  ELSE With(InvokeListener(st, ls[i], name, ev, tag, oc[ls[i]]),
            LAMBDA r :
              IF r.raised THEN [st |-> r.st, raised |-> "listener"]
              ELSE CallListeners(r.st, ls, i + 1, name, ev, tag, oc))

(* EventEmitter.prototype.emit, kept as underlyingEmit: the listeners registered *)
(* when the emit starts run in order, a throwing listener ends the emit, and an  *)
(* 'error' event without listeners throws.                                       *)
underlyingEmit(st, name, ev, tag, oc) ==
  IF st.lsn[name] = <<>>
    THEN [st |-> st, ret |-> FALSE,
          raised |-> IF name = "error" THEN "unhandled" ELSE "none"]
  ELSE With(CallListeners(st, st.lsn[name], 1, name, ev, tag, oc),
            LAMBDA r : [st |-> r.st, ret |-> TRUE, raised |-> r.raised])

(* an emit that calls the underlying emit whether or not the level has listeners *)
ConsoleIntercept_emit_unguarded(st, eventName, ev, oc) ==
  With(underlyingEmit(st, eventName, ev, "-", oc),
       LAMBDA r1 :
         IF r1.raised # "none" THEN r1
         ELSE With(underlyingEmit(r1.st, "any", ev, eventName, oc),
                   LAMBDA r2 : [st |-> r2.st, ret |-> r1.ret, raised |-> r2.raised]))

(* ConsoleIntercept$$emit(eventName, ev) *)
ConsoleIntercept_emit(st, eventName, ev, oc) ==
  With(IF Len(st.lsn[eventName]) # 0
         THEN underlyingEmit(st, eventName, ev, "-", oc)
         ELSE [st |-> st, ret |-> FALSE, raised |-> "none"],
       LAMBDA r1 :
         IF r1.raised # "none" THEN r1
         ELSE With(underlyingEmit(r1.st, "any", ev, eventName, oc),
                   LAMBDA r2 : [st |-> r2.st, ret |-> r1.ret, raised |-> r2.raised]))

----------------------------------------------------------------------------
(* ConsoleInterceptor: the wrapped entry points *)

UncaughtMsg == Str("Uncaught Error in consoleWrapper")

(* an invocation of that.underlyingConsoleMethods[level] *)
Upstream(level, args) == [fn |-> "underlying", level |-> level, arguments |-> args]

Details(level, args) ==
  [level |-> level, arguments |-> args, hasInspected |-> ~minimal,
   inspectedArguments |-> IF minimal THEN <<>> ELSE inspectAll(args)]

(* the try block of consoleWrapper: build the details, push, emit *)
consoleWrapper_try(level, args, oc) ==
  IF ~minimal /\ inspectThrows(args)
    THEN [buffer |-> buffer, st |-> MkSt, emitted |-> FALSE, ret |-> FALSE,
          fault |-> "render"]
  ELSE With(Details(level, args),
            LAMBDA details :
              With(ConsoleIntercept_emit(MkSt, level, details, oc),
                   LAMBDA r :
                     [buffer |-> RingBuffer_push(buffer, details),
                      st |-> r.st, emitted |-> TRUE, ret |-> r.ret,
                      fault |-> r.raised]))

(* a wrapper without the try/catch: the exception reaches the caller *)
consoleWrapper_noCatch(level, args, oc) ==
  With(consoleWrapper_try(level, args, oc),
       LAMBDA p :
         [buffer |-> p.buffer, st |-> p.st, emitted |-> p.emitted, ret |-> p.ret,
          fault |-> p.fault, thrown |-> p.fault # "none",
          upstream |-> IF p.fault # "none" THEN <<>> ELSE <<Upstream(level, args)>>])

(* a wrapper that returns from its catch block *)
consoleWrapper_returnInCatch(level, args, oc) ==
  With(consoleWrapper_try(level, args, oc),
       LAMBDA p :
         [buffer |-> p.buffer, st |-> p.st, emitted |-> p.emitted, ret |-> p.ret,
          fault |-> p.fault, thrown |-> FALSE,
          upstream |-> IF p.fault # "none"
                         THEN <<Upstream("error", <<UncaughtMsg, Err(p.fault)>>)>>
                         ELSE <<Upstream(level, args)>>])

(* consoleWrapper of one of options.levels *)
consoleWrapper(level, args, oc) ==
  With(consoleWrapper_try(level, args, oc),
       LAMBDA p :
         [buffer |-> p.buffer, st |-> p.st, emitted |-> p.emitted, ret |-> p.ret,
          fault |-> p.fault, thrown |-> FALSE,
          upstream |->
            (IF p.fault # "none"
               THEN <<Upstream("error", <<UncaughtMsg, Err(p.fault)>>)>>
               ELSE <<>>) \o <<Upstream(level, args)>>])

(* traceWrapper: outside minimal mode it reads the undeclared inspectedArguments *)
traceWrapper(args, oc) ==
  IF ~minimal
    THEN [buffer |-> buffer, st |-> MkSt, emitted |-> FALSE, ret |-> FALSE,
          fault |-> "reference", thrown |-> TRUE, upstream |-> <<>>]
  ELSE With(Details("trace", args),
            LAMBDA details :
              With(ConsoleIntercept_emit(MkSt, "trace", details, oc),
                   LAMBDA r :
                     [buffer |-> RingBuffer_push(buffer, details),
                      st |-> r.st, emitted |-> TRUE, ret |-> r.ret,
                      fault |-> r.raised, thrown |-> r.raised # "none",
                      upstream |-> IF r.raised # "none" THEN <<>>
                                   ELSE <<Upstream("trace", args)>>]))

BlankLast ==
  [op |-> "none", level |-> "-", args |-> <<>>, sid |-> "-", arg |-> "-",
   w |-> "-", thrown |-> FALSE, fault |-> "none", emitted |-> FALSE, ret |-> FALSE,
   upstream |-> <<>>, notified |-> <<>>,
   wrote |-> [s \in Sessions |-> <<>>], triad |-> [s \in Sessions |-> "none"],
   anyAt |-> <<>>, lvlAt |-> <<>>, bufAt |-> <<>>, again |-> FALSE,
   redraw |-> [s \in Sessions |-> "none"],
   failed |-> [s \in Sessions |-> "none"],
   count |-> -1,        \* the number a command reports
   listing |-> <<>>,    \* the clients `who` wrote a line for
   pushes |-> <<>>,     \* the rendered events of a call with a nested call, as pushed
   trail |-> <<>>,      \* the functions a call on the namespace went through
   cb |-> <<>>,         \* invocations of the REPL callback: [err, result]
   logged |-> <<>>,     \* what the handler reported through console.error
   bytes |-> <<>>,      \* what writeLogEntry wrote to the transport
   ran |-> <<>>,        \* the command handlers a line invoked: [name, rest]
   hosted |-> FALSE,    \* the line was compiled as a host expression
   cuts |-> {},         \* readln: the positions after which a 'data' event ends
   pos |-> 0]           \* readln: the bytes delivered so far

(* what each listener runs into when invoked: only subscribed listeners vary *)
Subscribed(l) == \E n \in EventNames : \E i \in 1..Len(lsn[n]) : lsn[n][i] = l

OutcomeChoices ==
  LET subs == {l \in Subs : Subscribed(l)}
      sessions == {l \in Sessions : Subscribed(l)}
  IN  {[l \in Listeners |-> IF l \in T THEN "throw"
                            ELSE IF l \in sessions THEN ws[l] ELSE "ok"] :
         T \in SUBSET subs, ws \in [sessions -> WriteOutcomes]}

(* console[level](...args) called by the application *)
ConsoleCall(level, args) ==
  \E oc \in OutcomeChoices :
    \E r \in {IF level = "trace" THEN traceWrapper(args, oc)
              ELSE consoleWrapper(level, args, oc)} :
      /\ buffer' = r.buffer
      /\ lsn' = r.st.lsn
      /\ registry' = r.st.registry
      /\ sess' = r.st.sess
      /\ last' = [BlankLast EXCEPT
                    !.op = "call", !.level = level, !.args = args,
                    !.thrown = r.thrown, !.fault = r.fault,
                    !.emitted = r.emitted, !.ret = r.ret,
                    !.upstream = r.upstream, !.notified = r.st.notified,
                    !.wrote = r.st.wrote, !.triad = r.st.triad,
                    !.redraw = r.st.redraw, !.failed = r.st.failed,
                    !.anyAt = lsn["any"], !.lvlAt = lsn[level]]
      /\ UNCHANGED <<pushed, minimal, options, ci>>

(* ci.on(name, handler) by a subscriber other than a session *)
Subscribe(g, name) ==
  /\ ~Subscribed(g)
  /\ lsn' = [lsn EXCEPT ![name] = Append(@, g)]
  /\ UNCHANGED <<buffer, pushed, minimal, registry, sess, options, ci, last>>

----------------------------------------------------------------------------
(* The interceptor with subscribers that may throw *)

ArgLists == {<<Str("a"), Obj("o")>>, <<Obj("o"), BadObj>>}
SubNames == {"any", "log", "error"}

InitCI ==
  /\ buffer = RingBuffer(KeepCI)
  /\ pushed = <<>>
  /\ minimal \in BOOLEAN
  /\ lsn = [n \in EventNames |-> <<>>]
  /\ registry = <<>>
  /\ sess = [s \in Sessions |-> NoSession]
  /\ options = [users |-> FALSE, logOff |-> FALSE]
  /\ ci = <<>>
  /\ last = BlankLast

CISubscribe == \E g \in Subs, name \in SubNames : Subscribe(g, name)

CICall == \E level \in Levels \cup {"trace"}, args \in ArgLists : ConsoleCall(level, args)

NextCI == CISubscribe \/ CICall

SpecCI == InitCI /\ [][NextCI]_vars

(* the invocations of the upstream implementation of one level during the last call *)
UpstreamOf(level) ==
  {i \in 1..Len(last.upstream) : last.upstream[i].level = level}

IsReport(u) ==
  /\ u.fn = "underlying"
  /\ u.level = "error"
  /\ Len(u.arguments) = 2
  /\ u.arguments[1] = UncaughtMsg
  /\ u.arguments[2].t = "error"

WrappedCall == last.op = "call" /\ last.level \in Levels

\* C2 as stated: for every call to a wrapped entry point the upstream implementation
\* of that level is invoked exactly once, whatever the subscribers do and whether or
\* not rendering throws.
C2_UpstreamOncePerCall ==
  WrappedCall => Cardinality(UpstreamOf(last.level)) = 1

\* C2 amended: every call to a wrapped entry point ends by invoking the upstream
\* implementation of its level once with the call's own arguments; when the
\* pipeline threw, the upstream error implementation is invoked once before it
\* with the report, and never otherwise.
C2_Transparency ==
  WrappedCall =>
    LET up == last.upstream
        n  == Len(up)
    IN  /\ n = 1 + (IF last.fault # "none" THEN 1 ELSE 0)
        /\ up[n] = Upstream(last.level, last.args)
        /\ \A i \in 1..(n - 1) : IsReport(up[i])

C2_Witness ==
  /\ WrappedCall
  /\ last.level = "error"
  /\ Len(last.anyAt) = 2
  /\ last.fault = "listener"
  /\ Len(last.upstream) = 2
  /\ last.upstream[2] = Upstream("error", last.args)

\* C3: an exception raised while rendering, pushing or emitting inside a wrapped
\* log call never reaches the caller; it is reported exactly once through the saved
\* upstream error implementation, not through the wrapper (no report is buffered or
\* emitted), and the upstream call with the real arguments still follows.
C3_PipelineFaultContained ==
  WrappedCall =>
    LET reports == {i \in 1..Len(last.upstream) : IsReport(last.upstream[i])}
    IN  /\ ~last.thrown
        /\ Cardinality(reports) = (IF last.fault # "none" THEN 1 ELSE 0)
        /\ \A i \in reports :
             /\ last.upstream[i].arguments[2] = Err(last.fault)
             /\ i < Len(last.upstream)
        /\ last.upstream[Len(last.upstream)] = Upstream(last.level, last.args)
        /\ \A i \in 1..Len(buffer.buf) : buffer.buf[i].arguments[1] # UncaughtMsg
        /\ \A i \in 1..Len(last.notified) : last.notified[i].level = last.level

C3_Witness ==
  /\ WrappedCall
  /\ last.level = "log"
  /\ last.fault = "render"
  /\ ~last.emitted
  /\ ~last.thrown
  /\ Len(last.upstream) = 2

(* how often listener l was invoked on the catch-all channel, tagged with the level *)
AnyDeliveries(l) ==
  {j \in 1..Len(last.notified) :
     last.notified[j] = [l |-> l, name |-> "any", level |-> last.level,
                         tag |-> last.level]}

\* C4 as stated: a subscriber of the catch-all channel receives exactly one event,
\* tagged with the level, for a call at every level, trace included, when neither
\* rendering nor a listener throws.
C4_CatchAllDelivery ==
  (last.op = "call" /\ last.fault \notin {"render", "listener"}) =>
    \A i \in 1..Len(last.anyAt) : Cardinality(AnyDeliveries(last.anyAt[i])) = 1

\* C5: an emit for a level without level-specific listeners, 'error' included, raises
\* nothing of its own and returns false; the catch-all listeners are invoked in order,
\* all of them unless one of them throws.
C5_EmitWithoutLevelListeners ==
  (last.op = "call" /\ last.emitted /\ last.lvlAt = <<>>) =>
    /\ last.fault \in {"none", "listener"}
    /\ ~last.ret
    /\ Len(last.notified) <= Len(last.anyAt)
    /\ \A j \in 1..Len(last.notified) :
         /\ last.notified[j].l = last.anyAt[j]
         /\ last.notified[j].name = "any"
         /\ last.notified[j].tag = last.level
    /\ last.fault = "none" => Len(last.notified) = Len(last.anyAt)
    /\ last.fault = "listener" => Len(last.notified) >= 1

C5_Witness ==
  /\ last.op = "call"
  /\ last.level = "error"
  /\ last.emitted
  /\ last.lvlAt = <<>>
  /\ Len(last.anyAt) = 2
  /\ last.fault = "none"
  /\ Len(last.notified) = 2

----------------------------------------------------------------------------
(* tc-repl.js: handleNewClient, its login loop and the transport events *)

(* options.users as a { login: password } table *)
Users == [alice |-> "pw"]

authFun(login, password) == login \in DOMAIN Users /\ Users[login] = password

RECURSIVE Pow4(_)
Pow4(n) == IF n = 0 THEN 1 ELSE 4 * Pow4(n - 1)

(* a backoff that is not capped *)
BackoffDelay_uncapped(tries) == 100 + 50 * Pow4(tries)

(* Math.min(5000, 100 + 50 * Math.pow(4, tries)) *)
BackoffDelay(tries) == Min(5000, 100 + 50 * Pow4(tries))

Op(name, s) == [BlankLast EXCEPT !.op = name, !.sid = s]

(* a telnet client connects: handleNewClient up to its first suspension *)
(* a connection handler that applies options.logOff before the login loop *)
Connect_defaultFirst(s) ==
  /\ sess[s].pc = "none"
  /\ registry' = Append(registry, s)
  /\ lsn' = [lsn EXCEPT !["any"] = Append(@, s)]
  /\ sess' = [sess EXCEPT ![s] =
       IF options.users
         THEN [@ EXCEPT !.logOff = options.logOff, !.errOn = FALSE, !.pc = "login"]
         ELSE [@ EXCEPT !.logOff = options.logOff, !.errOn = TRUE,
                        !.repl = TRUE, !.pc = "active"]]
  /\ last' = Op("connect", s)
  /\ UNCHANGED <<buffer, pushed, minimal, options, ci>>

Connect(s) ==
  /\ sess[s].pc = "none"
  /\ registry' = Append(registry, s)
  /\ lsn' = [lsn EXCEPT !["any"] = Append(@, s)]
  /\ sess' = [sess EXCEPT ![s] =
       IF options.users
         THEN [@ EXCEPT !.logOff = TRUE, !.errOn = FALSE, !.pc = "login"]
         ELSE [@ EXCEPT !.logOff = options.logOff, !.errOn = TRUE,
                        !.repl = TRUE, !.pc = "active"]]
  /\ last' = Op("connect", s)
  /\ UNCHANGED <<buffer, pushed, minimal, options, ci>>

(* readln resolves with the login line; the password prompt follows *)
SubmitLogin(s, login) ==
  /\ sess[s].pc = "login"
  /\ ~sess[s].destroyed
  /\ sess' = [sess EXCEPT ![s].login = login, ![s].pc = "password"]
  /\ last' = Op("login", s)
  /\ UNCHANGED <<buffer, pushed, minimal, lsn, registry, options, ci>>

(* readln resolves with the password line; the backoff sleep starts *)
SubmitPassword(s, password) ==
  /\ sess[s].pc = "password"
  /\ ~sess[s].destroyed
  /\ sess[s].tries < MaxTries
  /\ sess' = [sess EXCEPT ![s] =
       [@ EXCEPT !.password = password, !.errOn = TRUE,
                 !.prevDelay = sess[s].delay,
                 !.delay = BackoffDelay(sess[s].tries),
                 !.tries = @ + 1, !.pc = "backoff"]]
  /\ last' = Op("password", s)
  /\ UNCHANGED <<buffer, pushed, minimal, lsn, registry, options, ci>>

(* the sleep ends: the loop condition, then either the next prompt or the REPL; *)
(* code is what client.write runs into, which can fail once the transport is   *)
(* destroyed: the catch of handleNewClient swallows EPIPE and rethrows the rest *)
TimerFire(s, code) ==
  /\ sess[s].pc = "backoff"
  /\ code = "ok" \/ sess[s].destroyed
  /\ sess' = [sess EXCEPT ![s] =
       IF sess[s].login # "" /\ ~authFun(sess[s].login, sess[s].password)
         THEN IF code = "ok" THEN [@ EXCEPT !.errOn = FALSE, !.pc = "login"]
              ELSE [@ EXCEPT !.pc = "failed", !.rejected = (code # "EPIPE")]
         ELSE IF code = "ok"
                THEN [@ EXCEPT !.identity = sess[s].login, !.logOff = options.logOff,
                               !.repl = TRUE, !.pc = "active"]
              ELSE [@ EXCEPT !.identity = sess[s].login,
                             !.pc = "failed", !.rejected = (code # "EPIPE")]]
  /\ last' = [Op("timer", s) EXCEPT
                !.again = sess[s].cleaned, !.w = code,
                !.arg = IF sess[s].login # "" THEN "authFun" ELSE "-"]
  /\ UNCHANGED <<buffer, pushed, minimal, lsn, registry, options, ci>>

(* the transport emits 'error': the listener of line 195, or readln's trapError *)
(* while readln has the client's 'error' listeners backed up                     *)
TransportError(s, code) ==
  /\ sess[s].pc # "none"
  /\ \E st \in {IF sess[s].errOn THEN cleanup(MkSt, s) ELSE MkSt} :
       /\ lsn' = st.lsn
       /\ registry' = st.registry
       /\ sess' = [st.sess EXCEPT ![s] =
            IF sess[s].errOn THEN @
            ELSE [@ EXCEPT !.errOn = TRUE, !.pc = "failed",
                           !.rejected = (code # "EPIPE")]]
  /\ last' = [Op("error", s) EXCEPT !.again = sess[s].cleaned,
                                    !.fault = IF sess[s].errOn THEN "none" ELSE "readln"]
  /\ UNCHANGED <<buffer, pushed, minimal, options, ci>>

(* the transport emits 'close' *)
TransportClose(s) ==
  /\ sess[s].pc # "none"
  /\ \E st \in {cleanup(MkSt, s)} :
       /\ lsn' = st.lsn
       /\ registry' = st.registry
       /\ sess' = st.sess
  /\ last' = [Op("close", s) EXCEPT !.again = sess[s].cleaned]
  /\ UNCHANGED <<buffer, pushed, minimal, options, ci>>

----------------------------------------------------------------------------
(* tc-repl.js: the log command *)

(* -arg as slice takes it: the negated number, NaN and -0 being 0 *)
Digits == [n \in {"0", "1", "2", "3", "4"} |->
             CASE n = "0" -> 0 [] n = "1" -> 1 [] n = "2" -> 2 [] n = "3" -> 3
               [] n = "4" -> 4]

NegArg(arg) ==
  IF arg = "" THEN 0
  ELSE IF arg \in DOMAIN Digits THEN 0 - Digits[arg]
  ELSE 0

RECURSIVE WriteEntries(_, _, _, _, _)
WriteEntries(st, s, entries, i, w) ==
  IF i > Len(entries) THEN [st |-> st, raised |-> FALSE]
  ELSE With(writeLogEntry(st, s, entries[i], w, 0),
            LAMBDA r :
              IF r.raised THEN r ELSE WriteEntries(r.st, s, entries, i + 1, w))

(* a log command whose replay also turns the mirroring on *)
logCommand_enable(st, s, arg, w) ==
  IF arg = "off"
    THEN [st |-> [st EXCEPT !.sess[s].logOff = TRUE], raised |-> FALSE]
  ELSE With(WriteEntries(beforeWriteHandler(st, s), s,
                         RingBuffer_slice(buffer, NegArg(arg)), 1, w),
            LAMBDA r :
              [st |-> [r.st EXCEPT !.sess[s].logOff = FALSE], raised |-> r.raised])

(* logCommand(arg, client, options) *)
logCommand(st, s, arg, w) ==
  IF arg = "on" THEN [st |-> [st EXCEPT !.sess[s].logOff = FALSE], raised |-> FALSE]
  ELSE IF arg = "off"
    THEN [st |-> [st EXCEPT !.sess[s].logOff = TRUE], raised |-> FALSE]
  ELSE With(WriteEntries(beforeWriteHandler(st, s), s,
                         RingBuffer_slice(buffer, NegArg(arg)), 1, w),
            LAMBDA r :
              IF r.raised THEN r
              ELSE [st |-> afterWriteHandler(r.st, s), raised |-> FALSE])

(* the user of session s submits `log <arg>` *)
LogCmd(s, arg, w) ==
  /\ sess[s].pc = "active"
  /\ ~sess[s].destroyed
  /\ \E r \in {logCommand(MkSt, s, arg, w)} :
       /\ lsn' = r.st.lsn
       /\ registry' = r.st.registry
       /\ sess' = r.st.sess
       /\ last' = [Op("log", s) EXCEPT
                     !.arg = arg, !.w = w, !.thrown = r.raised,
                     !.wrote = r.st.wrote,
                     !.bufAt = RingBuffer_ordered(buffer)]
  /\ UNCHANGED <<buffer, pushed, minimal, options, ci>>

----------------------------------------------------------------------------
(* The server without a credential table: two clients, console.log traffic *)

Lines == {<<Str("a")>>, <<Str("b")>>}
LogArgs == {"", "0", "1", "2", "on", "off"}
ErrorCodes == {"EPIPE", "ECONNRESET"}

InitServer(users, logOffs) ==
  /\ buffer = RingBuffer(Keep)
  /\ pushed = <<>>
  /\ minimal = FALSE
  /\ lsn = [n \in EventNames |-> <<>>]
  /\ registry = <<>>
  /\ sess = [s \in Sessions |-> NoSession]
  /\ options \in [users : {users}, logOff : logOffs]
  /\ ci = <<>>
  /\ last = BlankLast

InitTC == InitServer(FALSE, {FALSE})

DoConnect == \E s \in Sessions : Connect(s)
DoError ==
  \E s \in Sessions :
    \E code \in IF sess[s].errOn THEN {"ECONNRESET"} ELSE ErrorCodes : TransportError(s, code)
DoClose == \E s \in Sessions : TransportClose(s)
DoLog == \E args \in Lines : ConsoleCall("log", args)
DoLogCmd ==
  \E s \in Sessions, arg \in LogArgs :
    \E w \in IF arg \in {"on", "off"} THEN {"ok"} ELSE WriteOutcomes : LogCmd(s, arg, w)

NextTC == DoConnect \/ DoError \/ DoClose \/ DoLog \/ DoLogCmd

SpecTC == InitTC /\ [][NextTC]_vars

----------------------------------------------------------------------------
(* The server with a credential table: one client types at the prompts, the *)
(* other connects and stays at its login prompt                             *)

Typists == {"s1"}
Logins == {"", "alice"}
Passwords == {"pw", "x"}
AuthLines == {<<Str("a")>>}

InitAuth == InitServer(TRUE, BOOLEAN)

DoLogin == \E s \in Typists, l \in Logins : SubmitLogin(s, l)
DoPassword == \E s \in Typists, p \in Passwords : SubmitPassword(s, p)
DoTimer == \E s \in Typists, code \in {"ok"} \cup ErrorCodes : TimerFire(s, code)
DoAuthLog == \E args \in AuthLines : ConsoleCall("log", args)

NextAuth ==
  \/ DoConnect \/ DoLogin \/ DoPassword \/ DoTimer
  \/ DoError \/ DoClose \/ DoAuthLog

SpecAuth == InitAuth /\ [][NextAuth]_vars

----------------------------------------------------------------------------
(* Sessions: cleanup, the authentication loop, mirroring and replay *)

RECURSIVE CountIn(_, _, _)
CountIn(seq, x, i) ==
  IF i = 0 THEN 0 ELSE (IF seq[i] = x THEN 1 ELSE 0) + CountIn(seq, x, i - 1)

Occurrences(seq, x) == CountIn(seq, x, Len(seq))

Connected(s) == sess[s].pc # "none"

\* C6: whatever 'error' and 'close' events a session's transport has emitted,
\* the session was removed from the registry at most once and its log handler
\* unsubscribed at most once; after a 'close', and after an 'error' that reached
\* the session's listener, both happened exactly once and the session is in
\* neither list; every other connected session that has not been cleaned up
\* is still registered and subscribed exactly once; the handling never throws.
C6_IdempotentCleanup ==
  /\ \A s \in Sessions :
       /\ sess[s].removals <= 1
       /\ sess[s].unsubs <= 1
       /\ sess[s].cleaned =>
            /\ sess[s].removals = 1
            /\ sess[s].unsubs = 1
            /\ Occurrences(registry, s) = 0
            /\ Occurrences(lsn["any"], s) = 0
       /\ (Connected(s) /\ ~sess[s].cleaned) =>
            /\ sess[s].removals = 0
            /\ sess[s].unsubs = 0
            /\ Occurrences(registry, s) = 1
            /\ Occurrences(lsn["any"], s) = 1
  /\ last.op = "close" => sess[last.sid].cleaned
  /\ (last.op = "error" /\ last.fault = "none") => sess[last.sid].cleaned
  /\ last.op \in {"error", "close"} => ~last.thrown

(* s1's transport fires again after its cleanup has run, s2 still connected *)
C6_Witness ==
  /\ last.op \in {"error", "close"}
  /\ last.sid = "s1"
  /\ last.again
  /\ sess["s1"].removals = 1
  /\ sess["s1"].unsubs = 1
  /\ registry = <<"s2">>
  /\ lsn["any"] = <<"s2">>

\* C7: with credentials configured, a session is Active (line editor attached,
\* identity recorded) only if the predicate returned true for the login and
\* password it last submitted; in particular an empty login does not make the
\* session Active.
C7_AuthenticationGate ==
  \A s \in Sessions :
    (options.users /\ sess[s].pc = "active") =>
       authFun(sess[s].login, sess[s].password)

\* C8: the delay awaited after a login attempt is greater than zero and at most
\* 5000 ms, is not smaller than the delay of the attempt before, and is
\* strictly greater than it over the first three attempts.
C8_LoginBackoff ==
  \A s \in Sessions :
    sess[s].tries >= 1 =>
      /\ sess[s].delay > 0
      /\ sess[s].delay <= 5000
      /\ sess[s].tries >= 2 => sess[s].prevDelay <= sess[s].delay
      /\ sess[s].tries \in 2..3 => sess[s].prevDelay < sess[s].delay

(* five wrong attempts: the fifth delay is the capped one, and the prompt returns *)
C8_Witness ==
  /\ sess["s1"].tries = 5
  /\ sess["s1"].pc = "login"
  /\ sess["s1"].prevDelay = 3300
  /\ sess["s1"].delay = 5000

\* C9: an intercepted log event starts a redraw triad on a subscribed session
\* if and only if that session's own logOff flag is false; `log on` and
\* `log off` set the flag of the issuing session.
C9_PerSessionMirroring ==
  /\ (last.op = "call" /\ last.level = "log") =>
       \A i \in 1..Len(last.anyAt) :
         last.anyAt[i] \in Sessions =>
           (last.triad[last.anyAt[i]] # "none" <=> ~sess[last.anyAt[i]].logOff)
  /\ (last.op = "log" /\ last.arg \in {"on", "off"}) =>
       sess[last.sid].logOff = (last.arg = "off")

InspectedOf(entries) == [i \in 1..Len(entries) |-> entries[i].inspectedArguments]

\* C10: when the writes succeed, `log N` with an integer N >= 0 replays exactly
\* the min(N, size) most recently buffered log lines, oldest first, and `log`
\* without argument replays the whole buffer.
C10_SliceLast ==
  (last.op = "log" /\ last.w = "ok" /\ last.arg \in DOMAIN Digits \cup {""}) =>
     last.wrote[last.sid] =
       InspectedOf(LastN(last.bufAt,
                         IF last.arg = "" THEN Len(last.bufAt) ELSE Digits[last.arg]))

----------------------------------------------------------------------------
(* tc-repl.js: evalWrapper, the evaluator handed to the line editor *)

\* cmd.match(/^(\w*)(\s*)(.*)(\n?)$/) on the lines considered: firstWord and rest;
\* a line with an embedded newline does not match
Match(cmd) ==
  CASE cmd = "whoami"         -> [ok |-> TRUE, firstWord |-> "whoami", rest |-> ""]
    [] cmd = "whoami.pid"     -> [ok |-> TRUE, firstWord |-> "whoami", rest |-> ".pid"]
    [] cmd = "whoami['ppid']" -> [ok |-> TRUE, firstWord |-> "whoami", rest |-> "['ppid']"]
    [] cmd = "whoami.nope"    -> [ok |-> TRUE, firstWord |-> "whoami", rest |-> ".nope"]
    [] cmd = "uptime.length"  -> [ok |-> TRUE, firstWord |-> "uptime", rest |-> ".length"]
    [] cmd = "flush nosuch"   -> [ok |-> TRUE, firstWord |-> "flush", rest |-> "nosuch"]
    [] cmd = "print nosuch"   -> [ok |-> TRUE, firstWord |-> "print", rest |-> "nosuch"]
    [] cmd = "1+1"            -> [ok |-> TRUE, firstWord |-> "1", rest |-> "+1"]
    [] cmd = "1+"             -> [ok |-> TRUE, firstWord |-> "1", rest |-> "+"]
    [] cmd = "keep.x = 5"     -> [ok |-> TRUE, firstWord |-> "keep", rest |-> ".x = 5"]
    [] cmd = "keep.x"         -> [ok |-> TRUE, firstWord |-> "keep", rest |-> ".x"]
    [] cmd = "last"           -> [ok |-> TRUE, firstWord |-> "last", rest |-> ""]
    [] cmd = "nosuch()"       -> [ok |-> TRUE, firstWord |-> "nosuch", rest |-> "()"]
    [] cmd = "keys whoami"    -> [ok |-> TRUE, firstWord |-> "keys", rest |-> "whoami"]
    [] cmd = "keys keep.x"    -> [ok |-> TRUE, firstWord |-> "keys", rest |-> "keep.x"]
    [] cmd = "keys whoami.pid" -> [ok |-> TRUE, firstWord |-> "keys", rest |-> "whoami.pid"]
    [] cmd = "keys"           -> [ok |-> TRUE, firstWord |-> "keys", rest |-> ""]
    [] cmd = "help"           -> [ok |-> TRUE, firstWord |-> "help", rest |-> ""]
    [] cmd = " "              -> [ok |-> TRUE, firstWord |-> "", rest |-> ""]
    [] OTHER                  -> [ok |-> FALSE, firstWord |-> "", rest |-> ""]

(* the commands table: defaultCommands, and commands.help *)
Commands == {"whoami", "uptime", "flush", "print", "help"}

(* the structured results of the commands: their fields *)
Fields ==
  [whoami |-> [pid |-> Num("4242"), ppid |-> Num("1"), process |-> Str("daemon")],
   help   |-> [length |-> Num("14")]]

(* what commands[firstWord](rest, client, options) does: returns a value,  *)
(* throws, or returns a promise that will reject                           *)
RunCommand(firstWord, rest) ==
  CASE firstWord = "whoami" -> [kind |-> "value", v |-> Obj("whoami")]
    [] firstWord = "uptime" -> [kind |-> "value", v |-> Str("12:00:00 up 1 minute")]
    [] firstWord = "help"   -> [kind |-> "value", v |-> Obj("help")]
    [] firstWord = "flush"  -> [kind |-> "throw", v |-> Err("MODULE_NOT_FOUND")]
    [] firstWord = "print"  -> [kind |-> "rejects", v |-> Err("ReferenceError")]

(* (myEval(`(x) => x${rest}`))(result) for an object-typed result *)
DrillDown(result, rest) ==
  With(CASE rest = ".pid" -> "pid" [] rest = "['ppid']" -> "ppid"
         [] rest = ".length" -> "length" [] OTHER -> "-",
       LAMBDA key :
         IF result.t = "object" /\ result.v \in DOMAIN Fields
              /\ key \in DOMAIN Fields[result.v]
           THEN Fields[result.v][key]
           ELSE Undef)

(* fn = myEval(`"use strict"; (async (last, keep) => (${cmd}))`); fn(last, keep): *)
(* the compilation may throw; the call returns a promise                         *)
HostEval_noScratch(cmd, lastv, keep) ==
  CASE cmd = "1+1"        -> [kind |-> "resolves", v |-> Num("2"), keep |-> keep]
    [] cmd = "keep.x = 5" -> [kind |-> "resolves", v |-> Num("5"), keep |-> keep]
    [] cmd = "keep.x"     -> [kind |-> "resolves", v |-> keep.x, keep |-> keep]
    [] cmd = "last"       -> [kind |-> "resolves", v |-> lastv, keep |-> keep]
    [] cmd = "undefined"  -> [kind |-> "resolves", v |-> Undef, keep |-> keep]
    [] cmd = "nosuch()"   -> [kind |-> "rejects", v |-> Err("ReferenceError"), keep |-> keep]
    [] OTHER              -> [kind |-> "throw", v |-> Err("SyntaxError"), keep |-> keep]

HostEval(cmd, lastv, keep) ==
  CASE cmd = "1+1"        -> [kind |-> "resolves", v |-> Num("2"), keep |-> keep]
    [] cmd = "keep.x = 5" -> [kind |-> "resolves", v |-> Num("5"),
                              keep |-> [keep EXCEPT !.x = Num("5")]]
    [] cmd = "keep.x"     -> [kind |-> "resolves", v |-> keep.x, keep |-> keep]
    [] cmd = "last"       -> [kind |-> "resolves", v |-> lastv, keep |-> keep]
    [] cmd = "undefined"  -> [kind |-> "resolves", v |-> Undef, keep |-> keep]
    [] cmd = "nosuch()"   -> [kind |-> "rejects", v |-> Err("ReferenceError"), keep |-> keep]
    [] OTHER              -> [kind |-> "throw", v |-> Err("SyntaxError"), keep |-> keep]

(* a prefix handler that hands its argument on as it is *)
ObjectKeys_identity(x) == [kind |-> "value", v |-> x]

(* Object.keys(x): throws on undefined; the keys of a record; none of a primitive *)
ObjectKeys(x) ==
  IF x.t = "undefined" THEN [kind |-> "throw", v |-> Err("TypeError")]
  ELSE IF x.t = "object" THEN [kind |-> "value", v |-> [t |-> "keys", v |-> x.v]]
  ELSE [kind |-> "value", v |-> [t |-> "keys", v |-> ""]]

(* rest[0] === '.' || rest[0] === '[' *)
StartsAccess(rest) == rest \in {".pid", "['ppid']", ".nope", ".length", ".x", ".x = 5"}

(* cmd.match(/^\s+$/) *)
IsBlank(cmd) == cmd = " "

(* the else branch of the dispatch: no command handler runs, the line is *)
(* compiled by options.eval                                              *)
Hosted(h) == [kind |-> h.kind, v |-> h.v, keep |-> h.keep, ran |-> <<>>, hosted |-> TRUE]

(* an evaluator without the commands table: every line is a host expression *)
Evaluate_noDispatch(c, firstWord, rest, cmd) ==
  Hosted(HostEval(IF IsBlank(cmd) THEN "undefined" ELSE cmd, c.lastResult, c.keep))

(* an evaluator that hands the whole record back, without the drill-down *)
Evaluate_whole(c, firstWord, rest, cmd) ==
  IF firstWord \in Commands
    THEN With(RunCommand(firstWord, rest),
              LAMBDA r : [kind |-> r.kind, v |-> r.v, keep |-> c.keep,
                          ran |-> <<[name |-> firstWord, rest |-> rest]>>,
                          hosted |-> FALSE])
  ELSE Hosted(HostEval(IF IsBlank(cmd) THEN "undefined" ELSE cmd, c.lastResult, c.keep))

(* the first statements of the inner try: the command or the host expression, *)
(* drilled down, before the await                                             *)
Evaluate(c, firstWord, rest, cmd) ==
  IF firstWord \in Commands
    THEN With(RunCommand(firstWord, rest),
              LAMBDA r :
                [ran |-> <<[name |-> firstWord, rest |-> rest]>>,
                 hosted |-> FALSE, keep |-> c.keep,
                 kind |-> IF r.kind = "rejects" /\ StartsAccess(rest)
                            THEN "value" ELSE r.kind,
                 v |-> IF r.kind = "value"
                         THEN (IF r.v.t = "object" /\ StartsAccess(rest)
                                 THEN DrillDown(r.v, rest) ELSE r.v)
                       ELSE IF r.kind = "rejects" /\ StartsAccess(rest) THEN Undef
                       ELSE r.v])
  ELSE Hosted(HostEval(IF IsBlank(cmd) THEN "undefined" ELSE cmd, c.lastResult, c.keep))

(* a completion that also stores what a failed line handed to the callback *)
Settle_storeError(c, r, prefix) ==
  With(IF r.kind \in {"throw", "rejects"} \/ ~prefix THEN [kind |-> "value", v |-> r.v]
       ELSE ObjectKeys(r.v),
       LAMBDA k : [cb |-> <<[err |-> "null", result |-> k.v]>>, logged |-> <<>>,
                   keep |-> r.keep, lastResult |-> k.v,
                   ran |-> r.ran, hosted |-> r.hosted])

(* the inner try/catch: await, prefixHnd, callback(null, result), last = result; *)
(* whatever was thrown goes to callback(null, error)                            *)
Settle(c, r, prefix) ==
  IF r.kind \in {"throw", "rejects"}
    THEN [cb |-> <<[err |-> "null", result |-> r.v]>>, logged |-> <<>>,
          keep |-> r.keep, lastResult |-> c.lastResult,
          ran |-> r.ran, hosted |-> r.hosted]
  ELSE With(IF prefix THEN ObjectKeys(r.v) ELSE [kind |-> "value", v |-> r.v],
            LAMBDA k :
              IF k.kind = "throw"
                THEN [cb |-> <<[err |-> "null", result |-> k.v]>>, logged |-> <<>>,
                      keep |-> r.keep, lastResult |-> c.lastResult,
                      ran |-> r.ran, hosted |-> r.hosted]
              ELSE [cb |-> <<[err |-> "null", result |-> k.v]>>, logged |-> <<>>,
                    keep |-> r.keep, lastResult |-> k.v,
                    ran |-> r.ran, hosted |-> r.hosted])

(* an evaluator whose catch block re-throws *)
evalWrapper_rethrow(c, cmd) ==
  [cb |-> <<>>, logged |-> <<>>, keep |-> c.keep, lastResult |-> c.lastResult,
   ran |-> <<>>, hosted |-> FALSE]

(* evalWrapper(cmd, context, filename, callback) of the client whose fields are c *)
evalWrapper(c, cmd) ==
  With(Match(cmd),
       LAMBDA m0 :
         IF ~m0.ok
           THEN [cb |-> <<>>, logged |-> <<Err("TypeError")>>,
                 keep |-> c.keep, lastResult |-> c.lastResult,
                 ran |-> <<>>, hosted |-> FALSE]
         ELSE IF m0.firstWord = "keys" /\ m0.rest = ""
           THEN Settle(c, Evaluate(c, "help", m0.rest, cmd), FALSE)
         ELSE IF m0.firstWord = "keys"
           THEN With(Match(m0.rest),
                     LAMBDA m :
                       IF ~m.ok
                         THEN [cb |-> <<>>, logged |-> <<Err("TypeError")>>,
                               keep |-> c.keep, lastResult |-> c.lastResult,
                               ran |-> <<>>, hosted |-> FALSE]
                       ELSE Settle(c, Evaluate(c, m.firstWord, m.rest, m0.rest), TRUE))
         ELSE Settle(c, Evaluate(c, m0.firstWord, m0.rest, cmd), FALSE))

(* the line editor of session s hands a line to its evaluator *)
EvalLine(s, cmd) ==
  /\ sess[s].pc = "active"
  /\ ~sess[s].destroyed
  /\ \E r \in {evalWrapper(sess[s], cmd)} :
       /\ sess' = [sess EXCEPT ![s].keep = r.keep, ![s].lastResult = r.lastResult]
       /\ last' = [Op("eval", s) EXCEPT !.arg = cmd, !.cb = r.cb, !.logged = r.logged,
                                        !.ran = r.ran, !.hosted = r.hosted]
  /\ UNCHANGED <<buffer, pushed, minimal, lsn, registry, options, ci>>

----------------------------------------------------------------------------
(* The evaluator: two Active sessions typing lines *)

EvalLines ==
  {"whoami", "whoami.pid", "whoami['ppid']", "whoami.nope", "uptime.length",
   "flush nosuch", "print nosuch", "1+1", "1+", "keep.x = 5", "keep.x", "last",
   "nosuch()", "keys whoami", "keys keep.x", "keys whoami.pid", "keys", "help",
   " ", "1+\n1"}

InitEval == InitServer(FALSE, {FALSE})

DoEval == \E s \in Sessions, cmd \in EvalLines : EvalLine(s, cmd)

NextEval == DoConnect \/ DoEval \/ DoClose

SpecEval == InitEval /\ [][NextEval]_vars

----------------------------------------------------------------------------
(* Claims about the evaluator *)

Returned(v) == last.cb = <<[err |-> "null", result |-> v]>>

(* C11: a line naming a command that returns a record, followed by a property *)
(* or index access, hands the accessed field to the REPL callback, not the    *)
(* whole record.                                                              *)
C11_CommandDrillDown ==
  last.op = "eval" =>
    /\ last.arg = "whoami.pid"     => Returned(Num("4242"))
    /\ last.arg = "whoami['ppid']" => Returned(Num("1"))
    /\ last.arg = "whoami.nope"    => Returned(Undef)
    /\ last.arg = "whoami"         => Returned(Obj("whoami"))

C11_Witness == last.op = "eval" /\ last.arg = "whoami.pid" /\ Returned(Num("4242"))

(* C12: a line whose first word is no command is evaluated as an expression   *)
(* with last and keep bound; what a line stores in keep is read back by later *)
(* lines of the same session, and only the session's own lines change it.     *)
C12_PerSessionScratch ==
  /\ [](last.op = "eval" =>
          /\ last.arg = "1+1"        => Returned(Num("2"))
          /\ last.arg = "keep.x = 5" => /\ Returned(Num("5"))
                                        /\ sess[last.sid].keep.x = Num("5")
          /\ last.arg = "keep.x"     => Returned(sess[last.sid].keep.x))
  /\ [][\A s \in Sessions :
          /\ sess'[s].keep # sess[s].keep =>
               last'.op = "eval" /\ last'.sid = s /\ last'.arg = "keep.x = 5"
          /\ sess'[s].lastResult # sess[s].lastResult =>
               last'.op = "eval" /\ last'.sid = s]_vars

C12_Witness ==
  /\ last.op = "eval" /\ last.arg = "keep.x" /\ Returned(Num("5"))
  /\ \E o \in Sessions : sess[o].pc = "active" /\ sess[o].keep.x = Undef

ErrorLines ==
  [x \in {"flush nosuch", "1+", "print nosuch", "nosuch()"} |->
     CASE x = "flush nosuch" -> Err("MODULE_NOT_FOUND")
       [] x = "1+"           -> Err("SyntaxError")
       [] OTHER              -> Err("ReferenceError")]

(* C13: when a command handler or an expression throws, or its promise        *)
(* rejects, the error is the result handed to the REPL callback with a null   *)
(* error argument, and every session stays as it was: Active and registered.  *)
C13_ErrorsAsValues ==
  [][(last'.op = "eval" /\ last'.arg \in DOMAIN ErrorLines) =>
       /\ last'.cb = <<[err |-> "null", result |-> ErrorLines[last'.arg]]>>
       /\ registry' = registry
       /\ \A s \in Sessions : /\ sess'[s].pc = sess[s].pc
                              /\ sess'[s].destroyed = sess[s].destroyed
       /\ sess'[last'.sid].pc = "active"]_vars

C13_Witness ==
  /\ last.op = "eval" /\ last.arg = "print nosuch"
  /\ Returned(Err("ReferenceError"))
  /\ Len(registry) = 2

----------------------------------------------------------------------------
(* The redraw coordinator: a user editing a line while the application logs *)

Keys == {"a", "b"}
WindowSizes == {3, 80}

(* a printable key: the line editor inserts it at the cursor *)
KeyPress(s, k) ==
  /\ sess[s].pc = "active" /\ ~sess[s].destroyed
  /\ Len(sess[s].line) < MaxLine
  /\ sess' = [sess EXCEPT
       ![s].line = SubSeq(sess[s].line, 1, sess[s].cursor) \o <<k>> \o
                   SubSeq(sess[s].line, sess[s].cursor + 1, Len(sess[s].line)),
       ![s].cursor = sess[s].cursor + 1]
  /\ last' = Op("key", s)
  /\ UNCHANGED <<buffer, pushed, minimal, lsn, registry, options, ci>>

(* an arrow key: the cursor moves by d within the line *)
CursorKey(s, d) ==
  /\ sess[s].pc = "active" /\ ~sess[s].destroyed
  /\ sess[s].cursor + d \in 0 .. Len(sess[s].line)
  /\ sess' = [sess EXCEPT ![s].cursor = sess[s].cursor + d]
  /\ last' = Op("key", s)
  /\ UNCHANGED <<buffer, pushed, minimal, lsn, registry, options, ci>>

(* doWinch: the client reports its window size *)
doWinch(s, columns) ==
  /\ sess[s].pc = "active" /\ ~sess[s].destroyed
  /\ sess[s].columns # columns
  /\ sess' = [sess EXCEPT ![s].columns = columns]
  /\ last' = Op("winch", s)
  /\ UNCHANGED <<buffer, pushed, minimal, lsn, registry, options, ci>>

InitRedraw == InitServer(FALSE, {FALSE})

DoKey == \E s \in Typists, k \in Keys : KeyPress(s, k)
DoCursor == \E s \in Typists, d \in {-1, 1} : CursorKey(s, d)
DoWinch == \E s \in Typists, columns \in WindowSizes : doWinch(s, columns)
DoRedrawLog == \E args \in AuthLines : ConsoleCall("log", args)

NextRedraw == DoConnect \/ DoKey \/ DoCursor \/ DoWinch \/ DoRedrawLog

SpecRedraw == InitRedraw /\ [][NextRedraw]_vars

(* C14: after a before/write/after triad on an Active session the line editor's *)
(* in-progress line and cursor offset are what they were before it, whether or  *)
(* not a window size was reported; with an empty line and the cursor at 0 the   *)
(* input is simply resumed.                                                     *)
C14_RedrawRestore ==
  [][\A s \in Sessions :
       (last'.op = "call" /\ last'.triad[s] = "done" /\ sess[s].pc = "active") =>
         /\ sess'[s].line = sess[s].line
         /\ sess'[s].cursor = sess[s].cursor
         /\ ~sess'[s].paused
         /\ (sess[s].line = <<>> /\ sess[s].cursor = 0) => last'.redraw[s] = "resume"]_vars

(* the same with a reported window size and a line in progress *)
C14_RestoredWithWindowSize ==
  [][\A s \in Sessions :
       (last'.op = "call" /\ last'.triad[s] = "done" /\ sess[s].pc = "active"
          /\ sess[s].columns # 0) =>
         /\ sess'[s].line = sess[s].line
         /\ sess'[s].cursor = sess[s].cursor
         /\ sess'[s] = sess[s]]_vars

----------------------------------------------------------------------------
(* tc-repl.js: wallCommand *)

WallMessage == <<Str("message from")>>

(* the callback of registry.forEach for the clients from index i on; ws[c] is *)
(* what the write to c's transport runs into                                  *)
RECURSIVE WallEach(_, _, _, _)
WallEach(st, s, i, ws) ==
  IF i > Len(st.registry) THEN [st |-> st, raised |-> FALSE]
  ELSE IF st.registry[i] = s THEN WallEach(st, s, i + 1, ws)
  ELSE With(beforeWriteHandler([st EXCEPT !.triad[st.registry[i]] = "begun"],
                               st.registry[i]),
            LAMBDA b :
              IF ws[b.registry[i]] # "ok" THEN [st |-> b, raised |-> TRUE]
              ELSE WallEach(
                     [afterWriteHandler(
                        [b EXCEPT !.wrote[b.registry[i]] = Append(@, WallMessage)],
                        b.registry[i])
                      EXCEPT !.triad[b.registry[i]] = "done"],
                     s, i + 1, ws))

(* wallCommand(arg, client, options) *)
wallCommand(st, s, ws) ==
  With(WallEach(st, s, 1, ws),
       LAMBDA r : [st |-> r.st, raised |-> r.raised,
                   count |-> IF r.raised THEN -1 ELSE Len(r.st.registry) - 1])

(* the user of session s submits `wall <message>` *)
Wall(s, ws) ==
  /\ sess[s].pc = "active"
  /\ ~sess[s].destroyed
  /\ \E r \in {wallCommand(MkSt, s, ws)} :
       /\ sess' = r.st.sess
       /\ last' = [Op("wall", s) EXCEPT
                     !.thrown = r.raised, !.wrote = r.st.wrote,
                     !.triad = r.st.triad, !.redraw = r.st.redraw,
                     !.count = r.count]
  /\ UNCHANGED <<buffer, pushed, minimal, lsn, registry, options, ci>>

(* whoCommand(arg, client, options): one line per registered client, then the count *)
Who(s) ==
  /\ sess[s].pc = "active"
  /\ ~sess[s].destroyed
  /\ last' = [Op("who", s) EXCEPT !.listing = registry, !.count = Len(registry)]
  /\ UNCHANGED <<buffer, pushed, minimal, lsn, registry, sess, options, ci>>

InitWall == InitServer(FALSE, {FALSE})

DoWho == \E s \in Sessions : Who(s)

DoWall == \E s \in Sessions, ws \in [Sessions -> WriteOutcomes] : Wall(s, ws)

NextWall ==
  \/ DoConnect \/ DoKey \/ DoCursor \/ DoWinch \/ DoWall \/ DoClose
  \/ DoWho \/ DoRedrawLog

SpecWall == InitWall /\ [][NextWall]_vars

(* The server with a credential table and the wall command: s1 logs in and *)
(* broadcasts while s2 is at its login prompt                             *)
NextAuthWall == DoConnect \/ DoLogin \/ DoPassword \/ DoTimer \/ DoWall

SpecAuthWall == InitAuth /\ [][NextAuthWall]_vars

InRegistry(c) == \E i \in 1 .. Len(registry) : registry[i] = c

(* C15: wall writes the message once to every registered session but the     *)
(* issuer, nothing to the issuer, each write between the target's before and *)
(* after steps, and reports the number of registered sessions minus one.     *)
C15_WallDelivery ==
  last.op = "wall" =>
    /\ \A c \in Sessions :
         IF InRegistry(c) /\ c # last.sid
           THEN last.wrote[c] = <<WallMessage>> /\ last.triad[c] = "done"
           ELSE last.wrote[c] = <<>>
    /\ ~last.thrown
    /\ last.count = Len(registry) - 1

----------------------------------------------------------------------------
(* Several interceptors on one console namespace; reintercept *)

Insts == {"A", "B"}                  \* the ConsoleInterceptor instances
Props == {"log", "error", "trace"}   \* options.levels = ['log', 'error'], and trace
Fns == Insts \cup {"real", "third"}  \* a property of the namespace: an instance's
                                     \* wrapper, the real function, a third party's

(* that.emit(level, details) of instance i: the listeners of the level, then  *)
(* those of 'any'.  The instances have no listener table of their own: the    *)
(* constructor does not call EventEmitter, so this._events is the table of    *)
(* ConsoleInterceptor.prototype, the one EventEmitter all of them inherit     *)
Emitted(i, prop) ==
  [k \in 1..Len(lsn[prop]) |-> [l |-> lsn[prop][k], name |-> prop, by |-> i]]
    \o [k \in 1..Len(lsn["any"]) |-> [l |-> lsn["any"][k], name |-> "any", by |-> i]]

(* the wrapper of instance i has buffered and emitted the event *)
Handled(acc, i, prop, args) ==
  [acc EXCEPT !.bufs[i] = RingBuffer_push(@, Details(prop, args)),
              !.trail = Append(@, [fn |-> i, prop |-> prop, arguments |-> args]),
              !.notified = @ \o Emitted(i, prop)]

(* console[prop](...args) where the property holds fn: the real and the third  *)
(* party's function return; consoleWrapper and traceWrapper of an instance go  *)
(* on to that.underlyingConsoleMethods; fuel is the stack left                  *)
RECURSIVE Invoke(_, _, _, _, _)
Invoke(fn, prop, args, fuel, acc) ==
  IF acc.thrown # "none" THEN acc
  ELSE IF fuel = 0 THEN [acc EXCEPT !.thrown = "RangeError"]
  ELSE IF fn \notin Insts
    THEN [acc EXCEPT !.trail = Append(@, [fn |-> fn, prop |-> prop, arguments |-> args])]
  ELSE IF prop = "trace"
    THEN IF ~minimal THEN [acc EXCEPT !.thrown = "ReferenceError"]
         ELSE Invoke(ci.under[fn]["trace"], "trace", args, fuel - 1,
                     Handled(acc, fn, "trace", args))
  ELSE IF ~minimal /\ inspectThrows(args)
    THEN Invoke(ci.under[fn][prop], prop, args, fuel - 1,
                Invoke(ci.under[fn]["error"], "error", <<UncaughtMsg, Err("render")>>,
                       fuel - 1, acc))
  ELSE Invoke(ci.under[fn][prop], prop, args, fuel - 1, Handled(acc, fn, prop, args))

(* new ConsoleInterceptor(options) on the namespace *)
Construct(i) ==
  /\ ~ci.made[i]
  /\ ci' = [ci EXCEPT !.made[i] = TRUE,
                      !.under[i] = ci.console,
                      !.console = [p \in Props |-> i]]
  /\ last' = Op("construct", i)
  /\ UNCHANGED <<buffer, pushed, minimal, lsn, registry, sess, options>>

(* other code assigns functions of its own, which never call an interceptor *)
ThirdParty(P) ==
  /\ \E i \in Insts : ci.made[i]
  /\ \E p \in P : ci.console[p] # "third"
  /\ ci' = [ci EXCEPT !.console = [p \in Props |-> IF p \in P THEN "third" ELSE @[p]]]
  /\ last' = Op("replace", "-")
  /\ UNCHANGED <<buffer, pushed, minimal, lsn, registry, sess, options>>

(* ConsoleIntercept$$reintercept(console) of instance i *)
reintercept(i) ==
  /\ ci.made[i]
  /\ ci' = [ci EXCEPT
       !.under[i] = [p \in Props |-> IF ci.console[p] # i THEN ci.console[p] ELSE @[p]],
       !.console = [p \in Props |-> i]]
  /\ last' = Op("reintercept", i)
  /\ UNCHANGED <<buffer, pushed, minimal, lsn, registry, sess, options>>

(* the application calls console[prop](...args) *)
NamespaceCall(prop, args) ==
  \E acc \in {Invoke(ci.console[prop], prop, args, MaxDepth,
                     [bufs |-> ci.bufs, trail |-> <<>>, notified |-> <<>>,
                      thrown |-> "none"])} :
    /\ ci' = [ci EXCEPT !.bufs = acc.bufs]
    /\ last' = [BlankLast EXCEPT !.op = "call", !.level = prop, !.args = args,
                                 !.thrown = acc.thrown # "none",
                                 !.fault = acc.thrown, !.trail = acc.trail,
                                 !.notified = acc.notified]
    /\ UNCHANGED <<buffer, pushed, minimal, lsn, registry, sess, options>>

ChainArgs == {<<Str("a")>>}

InitChain ==
  /\ buffer = RingBuffer(KeepCI)
  /\ pushed = <<>>
  /\ minimal \in BOOLEAN
  /\ lsn = [n \in EventNames |-> <<>>]
  /\ registry = <<>>
  /\ sess = [s \in Sessions |-> NoSession]
  /\ options = [users |-> FALSE, logOff |-> FALSE]
  /\ ci = [console |-> [p \in Props |-> "real"],
           under |-> [i \in Insts |-> [p \in Props |-> "real"]],
           made |-> [i \in Insts |-> FALSE],
           via |-> [g \in Subs |-> "-"],
           bufs |-> [i \in Insts |-> RingBuffer(KeepCI)]]
  /\ last = BlankLast

DoConstruct == \E i \in Insts : Construct(i)
DoThirdParty == \E P \in SUBSET Props : ThirdParty(P)
DoReintercept == \E i \in Insts : reintercept(i)
DoNamespaceCall == \E prop \in Props, args \in ChainArgs : NamespaceCall(prop, args)

NextChain == DoConstruct \/ DoThirdParty \/ DoReintercept \/ DoNamespaceCall

SpecChain == InitChain /\ [][NextChain]_vars

(* i.on(name, handler) by subscriber g: EventEmitter's addListener finds       *)
(* i._events on the prototype and adds the handler there                      *)
SubscribeOn(g, i, name) ==
  /\ ci.made[i]
  /\ ci.via[g] = "-"
  /\ lsn' = [lsn EXCEPT ![name] = Append(@, g)]
  /\ ci' = [ci EXCEPT !.via[g] = i]
  /\ last' = Op("on", g)
  /\ UNCHANGED <<buffer, pushed, minimal, registry, sess, options>>

(* Two instances constructed one after the other, each with a subscriber *)
DoSubscribeOn == \E g \in Subs, i \in Insts, name \in {"log", "any"} : SubscribeOn(g, i, name)

NextShared == DoConstruct \/ DoSubscribeOn \/ DoNamespaceCall

SpecShared == InitChain /\ [][NextShared]_vars

Went(fn, prop, args) == [fn |-> fn, prop |-> prop, arguments |-> args]

(* C16: after a third party replaced entry points by functions that do not    *)
(* delegate, reintercept() puts the instance's wrappers back on every level   *)
(* and on trace, takes the third party's function as upstream of exactly the  *)
(* entry points that differed, and every later call is buffered by the        *)
(* instance and reaches the new upstream exactly once.                        *)
C16_ReinterceptRecovery ==
  /\ [][\A i \in Insts :
          (last'.op = "reintercept" /\ last'.sid = i) =>
            \A p \in Props :
              /\ ci'.console[p] = i
              /\ ci'.under[i][p] =
                   IF ci.console[p] # i THEN ci.console[p] ELSE ci.under[i][p]]_vars
  /\ [](\A i \in Insts :
          (/\ last.op = "call"
           /\ ci.console[last.level] = i
           /\ ci.under[i][last.level] = "third") =>
            /\ ~last.thrown
            /\ last.trail = <<Went(i, last.level, last.args),
                              Went("third", last.level, last.args)>>
            /\ RingBuffer_ordered(ci.bufs[i]) # <<>>)

(* the same for the entry points of options.levels alone *)
C16_LevelsRecovered ==
  \A i \in Insts :
    (/\ last.op = "call" /\ last.level # "trace"
     /\ ci.console[last.level] = i
     /\ ci.under[i][last.level] = "third") =>
      /\ ~last.thrown
      /\ last.trail = <<Went(i, last.level, last.args),
                        Went("third", last.level, last.args)>>

NoThirdParty ==
  \A p \in Props : /\ ci.console[p] # "third"
                   /\ \A i \in Insts : ci.under[i][p] # "third"

(* C17: with two instances chained on the namespace, whichever of them ran    *)
(* reintercept() and whenever, a call of an intercepted level terminates and  *)
(* invokes the real implementation exactly once.                              *)
C17_ChainAcyclic ==
  (/\ last.op = "call" /\ last.level # "trace"
   /\ \A i \in Insts : ci.made[i]
   /\ NoThirdParty) =>
    /\ ~last.thrown
    /\ Cardinality({k \in 1 .. Len(last.trail) : last.trail[k].fn = "real"}) = 1

----------------------------------------------------------------------------
(* Further claims about the interceptor and the sessions *)

(* C18: a call of the intercepted trace, in minimal and in non-minimal mode,   *)
(* pushes one event of level 'trace', emits it to the 'trace' and the catch-all *)
(* subscribers, invokes the upstream trace once with the original arguments    *)
(* and does not throw to the caller.                                           *)
C18_TraceInterception ==
  (last.op = "call" /\ last.level = "trace") =>
    /\ ~last.thrown
    /\ last.emitted
    /\ RingBuffer_ordered(buffer) # <<>>
    /\ RingBuffer_ordered(buffer)[Len(RingBuffer_ordered(buffer))].level = "trace"
    /\ last.upstream = <<Upstream("trace", last.args)>>

(* C19: when cleanup has run while the session waits in the backoff delay, the *)
(* timer firing later does nothing: no login attempt is evaluated, no line     *)
(* editor attached, no session flag changed, no error raised.                  *)
C19_LateTimerNoOp ==
  [][\A s \in Sessions :
       (last'.op = "timer" /\ last'.sid = s /\ sess[s].cleaned) =>
         /\ last'.arg = "-"
         /\ sess'[s].repl = sess[s].repl
         /\ sess'[s].identity = sess[s].identity
         /\ sess'[s].logOff = sess[s].logOff
         /\ sess'[s].errOn = sess[s].errOn
         /\ sess'[s].rejected = sess[s].rejected]_vars

(* C20: in every state of a session, a 'close' event of its transport leaves, *)
(* when its handling ends, the session's log handler unsubscribed, the session *)
(* out of the registry and the transport destroyed.                            *)
C20_CloseDrivesCleanup ==
  last.op = "close" =>
    /\ sess[last.sid].cleaned
    /\ sess[last.sid].destroyed
    /\ Occurrences(registry, last.sid) = 0
    /\ Occurrences(lsn["any"], last.sid) = 0

(* the close arrives while the session waits for the password line *)
C20_Witness ==
  /\ last.op = "close" /\ last.sid = "s1" /\ ~last.again
  /\ sess["s1"].pc = "password"
  /\ sess["s1"].destroyed
  /\ Occurrences(registry, "s1") = 0
  /\ Occurrences(lsn["any"], "s1") = 0

----------------------------------------------------------------------------
(* Further claims about the ring buffer *)

(* a freshly constructed buffer after the pushes of seq, in order *)
RECURSIVE PushAll(_, _, _)
PushAll(rb, seq, i) ==
  IF i > Len(seq) THEN rb ELSE PushAll(RingBuffer_push(rb, seq[i]), seq, i + 1)

(* C21: after clear() the ordered read is empty and the capacity is the one   *)
(* given at construction; the pushes that follow leave the buffer as they     *)
(* leave a freshly constructed buffer of that capacity.                       *)
C21_ClearIsFresh ==
  /\ [](/\ buffer = PushAll(RingBuffer(buffer.size), pushed, 1)
        /\ pushed = <<>> => RingBuffer_ordered(buffer) = <<>>)
  /\ [][buffer'.size = buffer.size]_vars

(* a full buffer was cleared and has wrapped around again since *)
C21_Witness ==
  /\ last.op = "clear" /\ last.wrapped
  /\ buffer.size = 2 /\ Len(pushed) = 3
  /\ RingBuffer_ordered(buffer) = <<pushed[2], pushed[3]>>

----------------------------------------------------------------------------
(* Further claims about the sessions *)

(* C22: once the cleanup of a session has run, a later log event, wall of     *)
(* another session or who listing neither refers to that session nor writes   *)
(* to its transport.                                                          *)
C22_ClosedIsTerminal ==
  [][\A s \in Sessions :
       (sess[s].cleaned /\ last'.op \in {"call", "wall", "who"}) =>
         /\ last'.wrote[s] = <<>>
         /\ last'.triad[s] = "none"
         /\ s \notin {last'.notified[i].l : i \in 1 .. Len(last'.notified)}
         /\ Occurrences(last'.listing, s) = 0
         /\ last'.op = "who" => last'.count = Len(registry)
         /\ sess'[s] = sess[s]]_vars

C22_Witness ==
  /\ sess["s2"].cleaned
  /\ last.op = "who" /\ last.sid = "s1"
  /\ last.listing = <<"s1">> /\ last.count = 1

(* C23: an 'error' event of the transport, in whatever state the session is,  *)
(* the reading of the login or password line included, leaves the session     *)
(* unsubscribed from the interceptor and out of the registry when its         *)
(* handling ends.                                                             *)
C23_ErrorDrivesCleanup ==
  last.op = "error" =>
    /\ sess[last.sid].cleaned
    /\ Occurrences(registry, last.sid) = 0
    /\ Occurrences(lsn["any"], last.sid) = 0

----------------------------------------------------------------------------
(* The line editor's 'exit' and the close that follows the end of a transport *)

(* an exit handler that writes the notice and does not end the transport *)
ReplExit_noEnd(s) ==
  /\ sess[s].pc = "active" /\ ~sess[s].destroyed
  /\ sess' = [sess EXCEPT ![s].pc = "exited"]
  /\ last' = Op("exit", s)
  /\ UNCHANGED <<buffer, pushed, minimal, lsn, registry, options, ci>>

(* client.repl.on('exit'): the notice is written, the transport ended *)
ReplExit(s) ==
  /\ sess[s].pc = "active" /\ ~sess[s].destroyed
  /\ sess' = [sess EXCEPT ![s].pc = "exited", ![s].ended = TRUE]
  /\ last' = Op("exit", s)
  /\ UNCHANGED <<buffer, pushed, minimal, lsn, registry, options, ci>>

(* the 'close' event of a transport that was ended *)
EndedClose(s) == sess[s].ended /\ TransportClose(s)

DoExit == \E s \in Sessions : ReplExit(s)

NextExit == DoConnect \/ DoExit \/ DoError \/ DoClose \/ DoRedrawLog

SpecExit ==
  /\ InitServer(FALSE, {FALSE})
  /\ [][NextExit]_vars
  /\ \A s \in Sessions : WF_vars(EndedClose(s))

(* C24: when the line editor of an Active session emits 'exit' the transport  *)
(* is ended and, the transport emitting 'close' after its end, the session is *)
(* eventually unsubscribed and out of the registry, each exactly once.        *)
C24_ExitLeadsToClosed ==
  /\ \A s \in Sessions :
       (sess[s].pc = "exited") ~>
         (/\ sess[s].cleaned
          /\ Occurrences(registry, s) = 0
          /\ Occurrences(lsn["any"], s) = 0
          /\ sess[s].removals = 1 /\ sess[s].unsubs = 1)
  /\ [](\A s \in Sessions :
          /\ sess[s].pc = "exited" => sess[s].ended
          /\ sess[s].removals <= 1 /\ sess[s].unsubs <= 1)

C24_Witness ==
  /\ sess["s1"].pc = "exited" /\ sess["s1"].ended
  /\ last.op = "close" /\ last.sid = "s1" /\ ~last.again
  /\ sess["s1"].removals = 1 /\ sess["s1"].unsubs = 1
  /\ registry = <<"s2">>

Authenticating(s) == sess[s].pc \in {"login", "password", "backoff"}

(* C25: while a session is between its first login prompt and the end of the  *)
(* login loop no log event is written to its transport, whatever              *)
(* options.logOff is; options.logOff applies from the end of the loop.        *)
C25_NoLogsWhileAuthenticating ==
  /\ [](\A s \in Sessions : Authenticating(s) => sess[s].logOff)
  /\ [][\A s \in Sessions :
          /\ (Authenticating(s) /\ last'.op = "call") =>
               last'.wrote[s] = <<>> /\ last'.triad[s] = "none"
          /\ (last'.op = "timer" /\ last'.sid = s /\ sess'[s].pc = "active") =>
               sess'[s].logOff = options.logOff]_vars

(* a log event while s1 reads the password, mirroring being on by default *)
C25_Witness ==
  /\ ~options.logOff
  /\ sess["s1"].pc = "password"
  /\ last.op = "call"
  /\ \E i \in 1 .. Len(last.notified) : last.notified[i].l = "s1"
  /\ last.wrote["s1"] = <<>>

----------------------------------------------------------------------------
(* A subscriber whose handler logs: a console call nested in the delivery of  *)
(* another                                                                    *)

AllOk == [l \in Listeners |-> "ok"]

(* console.log(...args1) by the application; the handler of subscriber g, on  *)
(* receiving that event, calls console.log(...args2), whose wrapper pushes,   *)
(* emits and calls upstream before the outer emit goes on to the listeners    *)
(* behind g                                                                   *)
NestedCall(g, args1, args2) ==
  /\ lsn["log"] = <<>>
  /\ JsIndexOf(lsn["any"], g) # -1
  /\ \E k \in {JsIndexOf(lsn["any"], g) + 1} :
     \E r1 \in {CallListeners(MkSt, SubSeq(lsn["any"], 1, k - 1), 1, "any",
                              Details("log", args1), "log", AllOk)} :
     \E r2 \in {ConsoleIntercept_emit(
                  [r1.st EXCEPT !.notified =
                     Append(@, [l |-> g, name |-> "any", level |-> "log", tag |-> "log"])],
                  "log", Details("log", args2), AllOk)} :
     \E r3 \in {CallListeners(r2.st, SubSeq(lsn["any"], k + 1, Len(lsn["any"])), 1,
                              "any", Details("log", args1), "log", AllOk)} :
       /\ buffer' = RingBuffer_push(RingBuffer_push(buffer, Details("log", args1)),
                                    Details("log", args2))
       /\ lsn' = r3.st.lsn
       /\ registry' = r3.st.registry
       /\ sess' = r3.st.sess
       /\ last' = [BlankLast EXCEPT
                     !.op = "call", !.level = "log", !.args = args1,
                     !.emitted = TRUE, !.ret = TRUE,
                     !.upstream = <<Upstream("log", args2), Upstream("log", args1)>>,
                     !.notified = r3.st.notified, !.wrote = r3.st.wrote,
                     !.triad = r3.st.triad, !.redraw = r3.st.redraw,
                     !.anyAt = lsn["any"],
                     !.pushes = <<inspectAll(args1), inspectAll(args2)>>]
  /\ UNCHANGED <<pushed, minimal, options, ci>>

DoOrderSubscribe == Subscribe("g1", "any")
DoNested ==
  \E args1 \in Lines, args2 \in Lines : args1 # args2 /\ NestedCall("g1", args1, args2)
DoMirror == \E s \in Sessions, arg \in {"on", "off"} : LogCmd(s, arg, "ok")

NextOrder == DoConnect \/ DoOrderSubscribe \/ DoMirror \/ DoRedrawLog \/ DoNested

SpecOrder == InitServer(FALSE, {FALSE}) /\ [][NextOrder]_vars

(* C26: a session that receives two log events receives their writes in the   *)
(* order in which the events were pushed to the buffer, also when the second  *)
(* is logged by a subscriber's handler during the delivery of the first.      *)
C26_PerSessionOrdering ==
  (last.op = "call" /\ last.pushes # <<>>) =>
    /\ LastN(RingBuffer_ordered(buffer), 2) =
         <<Details("log", last.args), Details("log", last.upstream[1].arguments)>>
    /\ \A s \in Sessions :
         Len(last.wrote[s]) = Len(last.pushes) => last.wrote[s] = last.pushes

----------------------------------------------------------------------------
(* Claims about triads and write failures *)

(* C27: a before/write/after triad of a session begins only when every        *)
(* earlier triad of that session has run to completion, so that the line      *)
(* editor it pauses is not already paused by an unfinished one.               *)
C27_PerSessionSerialization ==
  [][\A s \in Sessions :
       (last'.op = "call" /\ last'.triad[s] # "none") => ~sess[s].paused]_vars


(* the listeners of 'any' when the last call was made *)
OnAny(s) == \E i \in 1..Len(last.anyAt) : last.anyAt[i] = s

(* C28: a write failure of any kind in one session's handler does not keep the *)
(* same log event from every other subscribed session: whenever a console call *)
(* ran into a write failure of session s, every other session subscribed at    *)
(* the time of the call with mirroring on, whatever its place in the           *)
(* subscription order, had its handler invoked with the event.                 *)
C28_CrossSessionIsolation ==
  last.op = "call" =>
    \A s, t \in Sessions :
      (s # t /\ OnAny(s) /\ OnAny(t) /\ ~sess[t].logOff /\ last.failed[s] # "none") =>
        \E i \in 1..Len(last.notified) : last.notified[i].l = t

(* the exception of s's handler left the emission of the last call *)
Escalated(s) ==
  /\ last.fault = "listener"
  /\ last.notified # <<>>
  /\ last.notified[Len(last.notified)].l = s

(* C29: an EPIPE or ERR_STREAM_WRITE_AFTER_END failure while a log entry is   *)
(* written is swallowed at the write site and drives the cleanup of that      *)
(* session; a failure with any other code is propagated out of the outermost  *)
(* write.                                                                     *)
C29_WriteFailurePolicy ==
  last.op = "call" =>
    \A s \in Sessions :
      /\ last.failed[s] \in {"epipe", "wae"} => (sess[s].cleaned /\ ~Escalated(s))
      /\ last.failed[s] = "err" => Escalated(s)


----------------------------------------------------------------------------
(* The bytes of one log entry *)

(* '\x1b[0G\x1b[0J': clear from the start of the current line to the end of display *)
ClearSeq == <<"ESC[0G", "ESC[0J">>

(* str.replace(/([^\r])\n/g, "$1\r\n"): a match is a character other than \r  *)
(* followed by \n; the search for the next match resumes after the match      *)
RECURSIVE ReplaceLF(_, _)
ReplaceLF(str, i) ==
  IF i > Len(str) THEN <<>>
  ELSE IF i < Len(str) /\ str[i] # "CR" /\ str[i + 1] = "LF"
    THEN <<str[i], "CR", "LF">> \o ReplaceLF(str, i + 2)
  ELSE <<str[i]>> \o ReplaceLF(str, i + 1)

(* the loop over entry.inspectedArguments, from index i (1-based) on *)
RECURSIVE writeArguments(_, _)
writeArguments(entry, i) ==
  IF i > Len(entry.inspectedArguments) THEN <<>>
  ELSE (IF i > 1 THEN <<" ">> ELSE <<>>)
         \o ReplaceLF(entry.inspectedArguments[i], 1)
         \o writeArguments(entry, i + 1)

(* the writes of writeLogEntry's try block, in order *)
writeLogEntry_output(entry) ==
  ClearSeq \o writeArguments(entry, 1) \o <<"CR", "LF">>

(* entries of one or two rendered arguments of at most MaxChars characters; *)
(* "x" stands for any character other than \r and \n                        *)
InitWrite ==
  /\ buffer = RingBuffer(Keep)
  /\ pushed = <<>>
  /\ minimal = FALSE
  /\ lsn = [n \in EventNames |-> <<>>]
  /\ registry = <<>>
  /\ sess = [s \in Sessions |-> NoSession]
  /\ options = [users |-> FALSE, logOff |-> FALSE]
  /\ ci = <<>>
  /\ \E k \in {1, 2} :
       \E args \in [1..k -> UNION {[1..n -> {"x", "CR", "LF"}] : n \in 0..MaxChars}] :
         last = [BlankLast EXCEPT !.op = "entry", !.args = args]

DoWrite ==
  /\ last.op = "entry"
  /\ last' = [last EXCEPT
                !.op = "write",
                !.bytes = writeLogEntry_output([inspectedArguments |-> last.args])]
  /\ UNCHANGED <<buffer, pushed, minimal, lsn, registry, sess, options, ci>>

NextWrite == DoWrite

SpecWrite == InitWrite /\ [][NextWrite]_vars

(* every \n not preceded by \r in the same argument becomes \r\n *)
TranslateLF(str) ==
  [i \in 1..Len(str) |->
     IF str[i] = "LF" /\ (i = 1 \/ str[i - 1] # "CR") THEN <<"CR", "LF">>
     ELSE <<str[i]>>]

RECURSIVE Flatten(_, _)
Flatten(ss, i) == IF i > Len(ss) THEN <<>> ELSE ss[i] \o Flatten(ss, i + 1)

RECURSIVE Joined(_, _)
Joined(args, i) ==
  IF i > Len(args) THEN <<>>
  ELSE (IF i = 1 THEN <<>> ELSE <<" ">>)
         \o Flatten(TranslateLF(args[i]), 1) \o Joined(args, i + 1)

(* C30: the bytes written for a log entry are the clear sequence, then the    *)
(* rendered arguments joined by single spaces with every bare line feed (one  *)
(* at the start of an argument and each of consecutive ones included)         *)
(* replaced by \r\n, then a terminating \r\n.                                 *)
C30_WriteStepBytes ==
  last.op = "write" =>
    last.bytes = ClearSeq \o Joined(last.args, 1) \o <<"CR", "LF">>


----------------------------------------------------------------------------
(* Claims about the dispatch of commands *)

(* the first word and remainder the dispatch sees once a `keys` prefix is resolved *)
Dispatched(cmd) ==
  With(Match(cmd),
       LAMBDA m0 :
         IF m0.ok /\ m0.firstWord = "keys"
           THEN (IF m0.rest = "" THEN [m0 EXCEPT !.firstWord = "help"]
                 ELSE Match(m0.rest))
         ELSE m0)

C32_LastIsLastSuccess ==
  [][last'.op = "eval" =>
       IF last'.cb = <<>> \/ last'.cb[1].result.t = "error"
         THEN sess'[last'.sid].lastResult = sess[last'.sid].lastResult
         ELSE sess'[last'.sid].lastResult = last'.cb[1].result]_vars

C32_Witness ==
  /\ last.op = "eval" /\ last.arg = "nosuch()"
  /\ Returned(Err("ReferenceError"))
  /\ sess[last.sid].lastResult = Num("2")


(* the enumerable keys of a value: those of a record, none of a primitive *)
KeysOf(x) == [t |-> "keys", v |-> IF x.t = "object" THEN x.v ELSE ""]

(* the lines `keys <rest>` considered, with their <rest> *)
KeysLines ==
  [x \in {"keys whoami", "keys keep.x", "keys whoami.pid"} |->
     CASE x = "keys whoami" -> "whoami"
       [] x = "keys keep.x" -> "keep.x"
       [] OTHER             -> "whoami.pid"]

(* C33: the result that `keys <rest>` hands to the callback is the key        *)
(* sequence of the value that the line <rest> alone, submitted in the same    *)
(* state, hands to it (command dispatch and drill-down included; where <rest> *)
(* alone yields undefined, which has no keys, the callback gets a TypeError); *)
(* `keys` with an empty remainder hands over what `help` does.                *)
C33_KeysPrefix ==
  [][last'.op = "eval" =>
       /\ last'.arg \in DOMAIN KeysLines =>
            \E alone \in {evalWrapper(sess[last'.sid], KeysLines[last'.arg]).cb[1].result} :
              last'.cb = <<[err |-> "null",
                            result |-> IF alone = Undef THEN Err("TypeError")
                                       ELSE KeysOf(alone)]>>
       /\ last'.arg = "keys" =>
            /\ last'.cb = evalWrapper(sess[last'.sid], "help").cb
            /\ last'.ran = <<[name |-> "help", rest |-> ""]>>]_vars

C33_Witness ==
  /\ last.op = "eval" /\ last.arg = "keys whoami"
  /\ Returned([t |-> "keys", v |-> "whoami"])
  /\ last.ran = <<[name |-> "whoami", rest |-> ""]>>


----------------------------------------------------------------------------
(* Claims about chained interceptors *)

Times(seq, P(_)) == Cardinality({k \in 1..Len(seq) : P(seq[k])})

(* C34: with two instances constructed one after the other on the namespace   *)
(* and no reintercept, a call of an intercepted level goes through each       *)
(* instance's wrapper once (one event pushed into each buffer), notifies each *)
(* subscriber of that level or of 'any' exactly once, and invokes the real    *)
(* implementation exactly once with the original arguments.                   *)
C34_ChainedOnce ==
  (/\ last.op = "call" /\ last.level # "trace"
   /\ \A i \in Insts : ci.made[i]) =>
    /\ ~last.thrown
    /\ \A i \in Insts : Times(last.trail, LAMBDA e : e.fn = i) = 1
    /\ \A g \in Subs :
         (\E n \in {last.level, "any"} : \E k \in 1..Len(lsn[n]) : lsn[n][k] = g) =>
           Times(last.notified, LAMBDA e : e.l = g) = 1
    /\ Times(last.trail, LAMBDA e : e.fn = "real") = 1
    /\ last.trail[Len(last.trail)] = Went("real", last.level, last.args)


----------------------------------------------------------------------------
(* Claims about the log replay, the registry and the pairing of the redraw steps *)

(* C35: `log N` and `log` of one session write to that session's transport    *)
(* only, replay the buffer whether the session's mirroring is on or off, and  *)
(* leave the ring buffer and every session's logOff flag as they were.        *)
C35_ReplayReadOnly ==
  [][(last'.op = "log" /\ last'.arg \notin {"on", "off"}) =>
       /\ buffer' = buffer
       /\ \A s \in Sessions : sess'[s].logOff = sess[s].logOff
       /\ \A s \in Sessions \ {last'.sid} : last'.wrote[s] = <<>>
       /\ (last'.w = "ok" /\ last'.arg = "") =>
            last'.wrote[last'.sid] = InspectedOf(RingBuffer_ordered(buffer))
       /\ (last'.w = "ok" /\ last'.arg = "1" /\ RingBuffer_ordered(buffer) # <<>>) =>
            last'.wrote[last'.sid] = InspectedOf(LastN(RingBuffer_ordered(buffer), 1))]_vars

C35_Witness ==
  /\ last.op = "log" /\ last.arg = "" /\ last.w = "ok"
  /\ sess[last.sid].logOff
  /\ Len(last.wrote[last.sid]) = 2
  /\ \E o \in Sessions \ {last.sid} : sess[o].pc = "active" /\ ~sess[o].logOff


----------------------------------------------------------------------------
(* readln.js: a line read from the raw byte stream *)

(* buildLine(istream, ostream, buf, byteBuf, nBytes, echoChar) from position  *)
(* pos (1-based) on, for bytes below 0xc2: the codepoint examined is          *)
(* byteBuf[0] at every position; 10 and 13 end the line, a printable          *)
(* character is appended to buf                                               *)
RECURSIVE buildLine(_, _, _)
buildLine(buf, byteBuf, pos) ==
  IF pos > Len(byteBuf) THEN [done |-> FALSE, buf |-> buf]
  ELSE IF byteBuf[1] \in {"CR", "LF"} THEN [done |-> TRUE, buf |-> buf]
  ELSE buildLine(Append(buf, byteBuf[1]), byteBuf, pos + 1)

(* a 'data' event while readln waits: getData resolves the pending promise   *)
(* with the chunk, the bytes up to the next cut, and the loop runs buildLine *)
ReadlnData ==
  /\ last.op = "readln"
  /\ ~last.ret
  /\ last.pos < Len(last.args)
  /\ \E to \in {c \in last.cuts \cup {Len(last.args)} :
                   /\ c > last.pos
                   /\ \A d \in last.cuts : d > last.pos => d >= c} :
       \E r \in {buildLine(last.bytes, SubSeq(last.args, last.pos + 1, to), 1)} :
         last' = [last EXCEPT !.pos = to, !.bytes = r.buf, !.ret = r.done]
  /\ UNCHANGED <<buffer, pushed, minimal, lsn, registry, sess, options, ci>>

(* a user types up to MaxTyped printable characters and CR or LF; the bytes *)
(* arrive split into 'data' events at any positions                         *)
InitReadln ==
  /\ buffer = RingBuffer(Keep)
  /\ pushed = <<>>
  /\ minimal = FALSE
  /\ lsn = [n \in EventNames |-> <<>>]
  /\ registry = <<>>
  /\ sess = [s \in Sessions |-> NoSession]
  /\ options = [users |-> FALSE, logOff |-> FALSE]
  /\ ci = <<>>
  /\ \E n \in 0..MaxTyped :
       \E typed \in [1..n -> {"a", "b"}], nl \in {"CR", "LF"}, cuts \in SUBSET (1..n) :
         last = [BlankLast EXCEPT !.op = "readln", !.args = Append(typed, nl),
                                  !.cuts = cuts]

NextReadln == ReadlnData

SpecReadln == InitReadln /\ [][NextReadln]_vars

(* C36: for every sequence of printable characters followed by CR or LF,     *)
(* however the bytes are split into 'data' events, readln resolves with      *)
(* exactly those characters once the bytes have been delivered.              *)
C36_ChunkingIndependence ==
  (last.op = "readln" /\ last.pos = Len(last.args)) =>
    /\ last.ret
    /\ last.bytes = SubSeq(last.args, 1, Len(last.args) - 1)


(* C37: between event handlers a session is in the registry if and only if    *)
(* its log handler is subscribed to 'any'; the registry holds no session      *)
(* twice, and the sessions' subscriptions to 'any' are as many as the         *)
(* registry is long.                                                          *)
C37_RegistryMatchesSubscriptions ==
  /\ \A s \in Sessions :
       (\E i \in 1..Len(registry) : registry[i] = s)
         <=> (\E k \in 1..Len(lsn["any"]) : lsn["any"][k] = s)
  /\ \A i, j \in 1..Len(registry) : registry[i] = registry[j] => i = j
  /\ Cardinality({k \in 1..Len(lsn["any"]) : lsn["any"][k] \in Sessions}) = Len(registry)

C37_Witness ==
  /\ last.op = "call"
  /\ \E s \in Sessions : last.failed[s] = "wae" /\ sess[s].cleaned
  /\ Len(registry) = 1
  /\ lsn["any"] = registry


(* C38: every before step that pauses the line editor of an Active session is *)
(* followed by its after step, also when the write in between fails: once the *)
(* handler has returned or thrown, no Active session's editor is paused.      *)
C38_BeforeAfterPairing ==
  \A s \in Sessions :
    (sess[s].pc = "active" /\ ~sess[s].cleaned) => ~sess[s].paused


(* C39: for every line handed to the evaluator, whitespace-only lines and     *)
(* input with embedded newlines included, the done callback is invoked        *)
(* exactly once.                                                              *)
C39_CallbackExactlyOnce ==
  last.op = "eval" => Len(last.cb) = 1


(* C40: while a session of a server with credentials is still Authenticating, *)
(* a `wall` issued by another session writes nothing to its transport.        *)
C40_NoWallBeforeLogin ==
  last.op = "wall" =>
    \A c \in Sessions : Authenticating(c) => last.wrote[c] = <<>>

====
